---- MODULE Spec2Model ----
(***************************************************************************)
(* A model of the Telegram movie bot of src/bot.py: the MongoDB-backed     *)
(* catalog (MediaDatabase), the update handlers, the callback-token        *)
(* navigation and the bulk dispatch loops.                                 *)
(*                                                                         *)
(* Python strings are modelled as tuples of one-character strings, a dict  *)
(* as an association list (a sequence of [k, v] records) that keeps the    *)
(* insertion order of its keys, as Python dicts and BSON documents do.     *)
(***************************************************************************)
EXTENDS Integers, Sequences, FiniteSets, TLC

(***************************************************************************)
(* Characters and strings                                                  *)
(***************************************************************************)
Digits == <<"0", "1", "2", "3", "4", "5", "6", "7", "8", "9">>

UpperCs == <<"A", "B", "C", "D", "E", "F", "G", "H", "I", "J", "K", "L", "M",
             "N", "O", "P", "Q", "R", "S", "T", "U", "V", "W", "X", "Y", "Z">>

LowerCs == <<"a", "b", "c", "d", "e", "f", "g", "h", "i", "j", "k", "l", "m",
             "n", "o", "p", "q", "r", "s", "t", "u", "v", "w", "x", "y", "z">>

IsDigit(c) == \E i \in 1..Len(Digits) : Digits[i] = c

DigitVal(c) == (CHOOSE i \in 1..Len(Digits) : Digits[i] = c) - 1

\* str.lower() and str.upper() on one character
LowerC(c) == IF \E i \in 1..Len(UpperCs) : UpperCs[i] = c
             THEN LowerCs[CHOOSE i \in 1..Len(UpperCs) : UpperCs[i] = c]
             ELSE c

UpperC(c) == IF \E i \in 1..Len(LowerCs) : LowerCs[i] = c
             THEN UpperCs[CHOOSE i \in 1..Len(LowerCs) : LowerCs[i] = c]
             ELSE c

Lower(s) == [i \in 1..Len(s) |-> LowerC(s[i])]

Upper(s) == [i \in 1..Len(s) |-> UpperC(s[i])]

\* s[a:b] of Python for 0 <= a, b: the characters a+1 .. b
Slice(s, a, b) == SubSeq(s, a + 1, IF b > Len(s) THEN Len(s) ELSE b)

\* lit occurs in s at (1-based) position i; ic: ignoring case (re.IGNORECASE)
MatchAt(s, i, lit, ic) ==
    /\ i >= 1
    /\ i + Len(lit) - 1 <= Len(s)
    /\ \A k \in 1..Len(lit) :
          IF ic THEN LowerC(s[i + k - 1]) = LowerC(lit[k])
                ELSE s[i + k - 1] = lit[k]

\* Python's `sub in s`
Contains(s, sub) == \E i \in 1..(Len(s) + 1) : MatchAt(s, i, sub, FALSE)

\* the length of the maximal run of digits of s that starts at position i
DigitRun(s, i) ==
    IF i > Len(s) \/ i < 1 THEN 0
    ELSE LET stops == {j \in i..Len(s) : ~IsDigit(s[j])}
         IN  IF stops = {} THEN Len(s) - i + 1
             ELSE (CHOOSE j \in stops : \A k \in stops : j <= k) - i

RECURSIVE ParseNat(_)
\* int() of a non-empty string of decimal digits
ParseNat(s) ==
    IF Len(s) = 0 THEN 0
    ELSE 10 * ParseNat(SubSeq(s, 1, Len(s) - 1)) + DigitVal(s[Len(s)])

RECURSIVE IntToStr(_)
\* str() of a natural number
IntToStr(n) ==
    IF n < 10 THEN <<Digits[n + 1]>>
    ELSE IntToStr(n \div 10) \o <<Digits[(n % 10) + 1]>>

\* Python's None, where a string may stand instead
None == <<"None">>

(***************************************************************************)
(* dict: an association list in insertion order                            *)
(***************************************************************************)
EmptyDict == <<>>

DictKeys(d) == [i \in 1..Len(d) |-> d[i].k]

DictHas(d, key) == \E i \in 1..Len(d) : d[i].k = key

DictGet(d, key) == d[CHOOSE i \in 1..Len(d) : d[i].k = key].v

\* d[key] = val: an existing key keeps its place, a new key goes last
DictPut(d, key, val) ==
    IF DictHas(d, key)
    THEN [i \in 1..Len(d) |-> IF d[i].k = key THEN [k |-> key, v |-> val] ELSE d[i]]
    ELSE Append(d, [k |-> key, v |-> val])

(***************************************************************************)
(* MediaDatabase.parse_filename                                            *)
(***************************************************************************)
\* os.path.splitext(filename)[0]: cut at the last dot, unless only dots
\* precede it in the last path component
SplitExtRoot(p) ==
    LET seps == {i \in 1..Len(p) : p[i] = "/"}
        dots == {i \in 1..Len(p) : p[i] = "."}
        sepIndex == IF seps = {} THEN 0 ELSE CHOOSE i \in seps : \A j \in seps : j <= i
        dotIndex == IF dots = {} THEN 0 ELSE CHOOSE i \in dots : \A j \in dots : j <= i
    IN  IF dotIndex > sepIndex
           /\ \E i \in (sepIndex + 1)..(dotIndex - 1) : p[i] # "."
        THEN SubSeq(p, 1, dotIndex - 1)
        ELSE p

\* the alternatives of r'(2160p|4K|1080p|720p|480p|360p)', in order
QualityAlts == << <<"2","1","6","0","p">>, <<"4","K">>, <<"1","0","8","0","p">>,
                  <<"7","2","0","p">>, <<"4","8","0","p">>, <<"3","6","0","p">> >>

\* the alternatives of the group (1080p|720p|480p|4K|2160p) of the title split
SplitQualityAlts == << <<"1","0","8","0","p">>, <<"7","2","0","p">>,
                       <<"4","8","0","p">>, <<"4","K">>, <<"2","1","6","0","p">> >>

\* the least element of a non-empty set of integers
MinOf(S) == CHOOSE i \in S : \A j \in S : i <= j

\* the positions at which one of the alternatives matches, ignoring case
AltPositions(name, alts) ==
    {i \in 1..Len(name) : \E a \in 1..Len(alts) : MatchAt(name, i, alts[a], TRUE)}

\* the first alternative (in the order of the pattern) that matches at i
AltAt(name, i, alts) ==
    alts[MinOf({a \in 1..Len(alts) : MatchAt(name, i, alts[a], TRUE)})]

\* r'S(\d+)E(\d+)' with re.IGNORECASE matches at position i
SeasonEpisodeAt(name, i) ==
    /\ i >= 1 /\ i <= Len(name)
    /\ LowerC(name[i]) = "s"
    /\ DigitRun(name, i + 1) >= 1
    /\ LET e == i + 1 + DigitRun(name, i + 1)
       IN  /\ e <= Len(name)
           /\ LowerC(name[e]) = "e"
           /\ DigitRun(name, e + 1) >= 1

SeasonEpisodePositions(name) == {i \in 1..Len(name) : SeasonEpisodeAt(name, i)}

\* r'(19|20)\d{2}' matches at position i
YearAt(name, i) ==
    /\ \/ MatchAt(name, i, <<"1", "9">>, FALSE)
       \/ MatchAt(name, i, <<"2", "0">>, FALSE)
    /\ i + 3 <= Len(name)
    /\ IsDigit(name[i + 2]) /\ IsDigit(name[i + 3])

YearPositions(name) == {i \in 1..Len(name) : YearAt(name, i)}

\* r'\d{4}' matches at position i
FourDigitsAt(name, i) ==
    /\ i + 3 <= Len(name)
    /\ \A k \in 0..3 : IsDigit(name[i + k])

\* where re.split(r'S\d+E\d+|(1080p|720p|480p|4K|2160p)|\d{4}', name, IGNORECASE)
\* cuts first: element [0] of the split is what precedes the leftmost match
SplitPositions(name) ==
    {i \in 1..Len(name) :
        \/ SeasonEpisodeAt(name, i)
        \/ \E a \in 1..Len(SplitQualityAlts) : MatchAt(name, i, SplitQualityAlts[a], TRUE)
        \/ FourDigitsAt(name, i)}

SplitFirst(name) ==
    IF SplitPositions(name) = {} THEN name
    ELSE SubSeq(name, 1, MinOf(SplitPositions(name)) - 1)

\* re.sub(r'[._-]', ' ', title)
SubSeparators(t) == [i \in 1..Len(t) |-> IF t[i] \in {".", "_", "-"} THEN " " ELSE t[i]]

\* str.strip()
Strip(t) ==
    LET keep == {i \in 1..Len(t) : t[i] # " "}
    IN  IF keep = {} THEN <<>>
        ELSE SubSeq(t, MinOf(keep), CHOOSE i \in keep : \A j \in keep : j <= i)

parse_filename(filename) ==
    LET name == SplitExtRoot(filename)
        qpos == AltPositions(name, QualityAlts)
        quality == IF qpos = {} THEN <<"U","n","k","n","o","w","n">>
                   ELSE Upper(AltAt(name, MinOf(qpos), QualityAlts))
        sepos == SeasonEpisodePositions(name)
        ypos == YearPositions(name)
        year == IF ypos = {} THEN None
                ELSE SubSeq(name, MinOf(ypos), MinOf(ypos) + 3)
        title == Strip(SubSeparators(SplitFirst(name)))
    IN  IF sepos # {}
        THEN LET i == MinOf(sepos)
                 sl == DigitRun(name, i + 1)
                 el == DigitRun(name, i + sl + 2)
             IN  [type |-> "series", title |-> title,
                  season |-> ParseNat(SubSeq(name, i + 1, i + sl)),
                  episode |-> ParseNat(SubSeq(name, i + sl + 2, i + sl + 1 + el)),
                  year |-> None, quality |-> quality, filename |-> filename]
        ELSE [type |-> "movie", title |-> title, season |-> 0, episode |-> 0,
              year |-> year, quality |-> quality, filename |-> filename]

(***************************************************************************)
(* Configuration (environment variables) and the bounded inputs            *)
(***************************************************************************)
\* the members of ADMIN_IDS and one user that is not among them
AdminUser == "admin"
OtherUser == "user"
ADMIN_IDS == {AdminUser}
Users == {AdminUser, OtherUser}

\* how many files are posted in one behaviour
MaxAdds == 3

\* message ids of the private channel, each with the file_id of its file
Locators == { [message_id |-> 1, file_id |-> "fA"],
              [message_id |-> 2, file_id |-> "fB"] }

\* "A.2020.720p.mkv"
File_A_2020_720 == <<"A",".","2","0","2","0",".","7","2","0","p",".","m","k","v">>
\* "a_1080p.mp4"
File_a_1080 == <<"a","_","1","0","8","0","p",".","m","p","4">>
\* "B.S01E02.720p.mkv"
File_B_S01E02_720 == <<"B",".","S","0","1","E","0","2",".","7","2","0","p",".","m","k","v">>
\* "b.s01e10.720p.mkv"
File_b_s01e10_720 == <<"b",".","s","0","1","e","1","0",".","7","2","0","p",".","m","k","v">>
\* "B.S01E01.480p.mkv"
File_B_S01E01_480 == <<"B",".","S","0","1","E","0","1",".","4","8","0","p",".","m","k","v">>
\* "B.S02E01.mkv"
File_B_S02E01 == <<"B",".","S","0","2","E","0","1",".","m","k","v">>

\* the file names of the posted documents; None: a video without a file name
FileNames == {File_A_2020_720, File_a_1080, File_B_S01E02_720, File_b_s01e10_720,
              File_B_S01E01_480, File_B_S02E01, None}

\* update.message.message_id of a posted file (used to name a nameless video)
ChatMessageIds == {7}

\* "video_{update.message.message_id}.mp4"
VideoName(message_id) ==
    <<"v","i","d","e","o","_">> \o IntToStr(message_id) \o <<".","m","p","4">>

\* the names add_media is called with, and the parse of each (computed once)
PostedNames == (FileNames \ {None}) \cup {VideoName(c) : c \in ChatMessageIds}

\* file names of episodes numbered from 0 and from 1:
\* "B.S00E01.mkv", "B.S01E00.mkv", "B.S01E01.mkv", "c.S02E03.mkv"
NumberedNames ==
    { <<"B",".","S","0","0","E","0","1",".","m","k","v">>,
      <<"B",".","S","0","1","E","0","0",".","m","k","v">>,
      <<"B",".","S","0","1","E","0","1",".","m","k","v">>,
      <<"c",".","S","0","2","E","0","3",".","m","k","v">> }

\* file names of titles that resemble each other:
\* "Bat.720p.mkv", "Abd.mkv", "Bad.2020.mkv",
\* "Dab.mkv", "Breaking.Bad.S01E01.mkv", "bad.S01E01.mkv"
SearchNames ==
    { <<"B","a","t",".","7","2","0","p",".","m","k","v">>,
      <<"A","b","d",".","m","k","v">>,
      <<"B","a","d",".","2","0","2","0",".","m","k","v">>,
      <<"D","a","b",".","m","k","v">>,
      <<"B","r","e","a","k","i","n","g",".","B","a","d",".","S","0","1","E","0","1",".","m","k","v">>,
      <<"b","a","d",".","S","0","1","E","0","1",".","m","k","v">> }

ParsedNames ==
    [f \in PostedNames \cup NumberedNames \cup SearchNames |-> parse_filename(f)]

Parse(filename) ==
    IF filename \in PostedNames THEN ParsedNames[filename] ELSE parse_filename(filename)

VARIABLES
    movies,     \* db.movies: the documents of the collection, in insertion order
    series,     \* db.series: the documents of the collection, in insertion order
    adds,       \* the number of add_media calls so far
    shown,      \* the bot's menu message in the chat: its text and inline keyboard
    pc,         \* where the running handler is suspended, "idle" between updates
    job,        \* the local variables of a running bulk dispatch
    events,     \* the copy_message calls and pacing sleeps of the running handler
    last,       \* the update handled last: its handler, its data, what it rendered
    tasks,      \* add_media calls of clients that share the store: where each
                \* is, and the calls that returned
    call        \* a call of a function of MediaDatabase on its own: the
                \* function, its arguments and, once it returned, its result

(***************************************************************************)
(* The collections: find_one and update_one(..., upsert=True)              *)
(***************************************************************************)
\* collection.find_one({"key": key}): the first document with that key, or None
HasDoc(coll, key) == \E i \in 1..Len(coll) : coll[i].key = key

find_one(coll, key) == coll[MinOf({i \in 1..Len(coll) : coll[i].key = key})]

\* a store that inserts on every update, matched or not
update_one_insert(coll, key, doc) == Append(coll, doc)

\* collection.update_one({"key": key}, {"$set": doc}, upsert=True): the first
\* document with that key gets the fields of doc; without one, doc is inserted
update_one(coll, key, doc) ==
    IF HasDoc(coll, key)
    THEN LET at == MinOf({i \in 1..Len(coll) : coll[i].key = key})
         IN  [i \in 1..Len(coll) |-> IF i = at THEN doc ELSE coll[i]]
    ELSE Append(coll, doc)

(***************************************************************************)
(* MediaDatabase.add_media                                                 *)
(***************************************************************************)
FileRecord(message_id, filename, file_id) ==
    [message_id |-> message_id, file_id |-> file_id, filename |-> filename]

\* dict.setdefault(key, {}) followed by a store below it
SetDefault(d, key) == IF DictHas(d, key) THEN DictGet(d, key) ELSE EmptyDict

\* the series branch up to the update: the document read (or the default one)
\* with seasons[s][e][q] set, and the parsed title
SeriesUpdate(coll, parsed, message_id, file_id) ==
    LET title_lower == Lower(parsed.title)
        series_doc == IF HasDoc(coll, title_lower) THEN find_one(coll, title_lower)
                      ELSE [key |-> title_lower, title |-> parsed.title,
                            seasons |-> EmptyDict]
        seasons == series_doc.seasons
        s == IntToStr(parsed.season)
        e == IntToStr(parsed.episode)
        q == parsed.quality
        season == SetDefault(seasons, s)
        episode == SetDefault(season, e)
        episode2 == DictPut(episode, q, FileRecord(message_id, parsed.filename, file_id))
    IN  [key |-> title_lower, title |-> parsed.title,
         seasons |-> DictPut(seasons, s, DictPut(season, e, episode2))]

\* a movie branch that upserts the document without storing the slot
MovieUpdateNoSlot(coll, parsed, message_id, file_id) ==
    LET title_lower == Lower(parsed.title)
    IN  IF HasDoc(coll, title_lower) THEN find_one(coll, title_lower)
        ELSE [key |-> title_lower, title |-> parsed.title,
              year |-> parsed.year, qualities |-> EmptyDict]

\* the movie branch up to the update: the document read (or the default one)
\* with qualities[q] set
MovieUpdate(coll, parsed, message_id, file_id) ==
    LET title_lower == Lower(parsed.title)
        movie_doc == IF HasDoc(coll, title_lower) THEN find_one(coll, title_lower)
                     ELSE [key |-> title_lower, title |-> parsed.title,
                           year |-> parsed.year, qualities |-> EmptyDict]
    IN  [movie_doc EXCEPT !.qualities =
            DictPut(@, parsed.quality, FileRecord(message_id, parsed.filename, file_id))]

\* add_media as a whole: [movies, series] after the call
add_media(mv, sr, message_id, filename, file_id) ==
    LET parsed == Parse(filename)
        title_lower == Lower(parsed.title)
    IN  IF parsed.type = "series"
        THEN [movies |-> mv,
              series |-> update_one(sr, title_lower,
                                    SeriesUpdate(sr, parsed, message_id, file_id))]
        ELSE [movies |-> update_one(mv, title_lower,
                                    MovieUpdate(mv, parsed, message_id, file_id)),
              series |-> sr]

(***************************************************************************)
(* MediaDatabase.fuzzy_search: difflib.SequenceMatcher(None, a, b).ratio() *)
(***************************************************************************)
\* the matching blocks <<i, j, k>> (0-based, a[i:i+k] = b[j:j+k], k >= 1) within
\* a[alo:ahi] and b[blo:bhi]
MatchBlocks(a, b, alo, ahi, blo, bhi) ==
    {c \in (alo..(ahi - 1)) \X (blo..(bhi - 1)) \X (1..(ahi - alo)) :
        /\ c[1] + c[3] <= ahi
        /\ c[2] + c[3] <= bhi
        /\ \A t \in 1..c[3] : a[c[1] + t] = b[c[2] + t]}

\* find_longest_match: the longest block; of those the one that starts earliest
\* in a, and of those the one that starts earliest in b (no junk: the strings
\* are shorter than the 200 characters at which autojunk sets in)
find_longest_match(a, b, alo, ahi, blo, bhi) ==
    LET cands == MatchBlocks(a, b, alo, ahi, blo, bhi)
    IN  CHOOSE c \in cands : \A d \in cands :
            \/ c[3] > d[3]
            \/ c[3] = d[3] /\ c[1] < d[1]
            \/ c[3] = d[3] /\ c[1] = d[1] /\ c[2] <= d[2]

RECURSIVE MatchedChars(_, _, _, _, _, _)
\* the sum of the sizes of get_matching_blocks(): the longest match, then the
\* same to its left and to its right
MatchedChars(a, b, alo, ahi, blo, bhi) ==
    IF MatchBlocks(a, b, alo, ahi, blo, bhi) = {} THEN 0
    ELSE LET m == find_longest_match(a, b, alo, ahi, blo, bhi)
         IN  m[3]
             + (IF alo < m[1] /\ blo < m[2]
                THEN MatchedChars(a, b, alo, m[1], blo, m[2]) ELSE 0)
             + (IF m[1] + m[3] < ahi /\ m[2] + m[3] < bhi
                THEN MatchedChars(a, b, m[1] + m[3], ahi, m[2] + m[3], bhi) ELSE 0)

\* ratio(): 2.0 * matches / length as the fraction num/den; 1.0 for two empty
\* strings
Ratio(a, b) ==
    IF Len(a) + Len(b) = 0 THEN [num |-> 1, den |-> 1]
    ELSE [num |-> 2 * MatchedChars(a, b, 0, Len(a), 0, Len(b)),
          den |-> Len(a) + Len(b)]

\* the default threshold=0.6 of fuzzy_search, as ThresholdNum / ThresholdDen
ThresholdNum == 6
ThresholdDen == 10

RatioAtLeast(r, num, den) == r.num * den >= num * r.den

RatioGreater(r1, r2) == r1.num * r2.den > r2.num * r1.den

\* a list left in the order of the scan
SortByRatioOmitted(items) == items

\* list.sort(key=lambda x: x["ratio"], reverse=True): by ratio, the greater
\* first; the sort is stable, equal ratios keep their order
SortByRatio(items) ==
    LET n == Len(items)
        before(i) == {j \in 1..n : \/ RatioGreater(items[j].ratio, items[i].ratio)
                                   \/ /\ ~RatioGreater(items[i].ratio, items[j].ratio)
                                      /\ j < i}
    IN  [p \in 1..n |-> items[CHOOSE i \in 1..n : Cardinality(before(i)) = p - 1]]

\* a scan that keeps an entry for its ratio only
MatchesByRatio(coll, query_lower) ==
    LET scored == [i \in 1..Len(coll) |->
                      [title |-> coll[i].title, key |-> coll[i].key,
                       ratio |-> Ratio(query_lower, coll[i].key)]]
        Keep(x) == RatioAtLeast(x.ratio, ThresholdNum, ThresholdDen)
    IN  SortByRatio(SelectSeq(scored, Keep))

\* one loop of fuzzy_search: the scan of a collection, sorted
Matches(coll, query_lower) ==
    LET scored == [i \in 1..Len(coll) |->
                      [title |-> coll[i].title, key |-> coll[i].key,
                       ratio |-> Ratio(query_lower, coll[i].key)]]
        Keep(x) == \/ RatioAtLeast(x.ratio, ThresholdNum, ThresholdDen)
                   \/ Contains(x.key, query_lower)
    IN  SortByRatio(SelectSeq(scored, Keep))

fuzzy_search(mv, sr, query) ==
    [movies |-> Matches(mv, Lower(query)), series |-> Matches(sr, Lower(query))]

(***************************************************************************)
(* Messages, buttons and callback tokens                                   *)
(***************************************************************************)
\* Pagination settings
ITEMS_PER_PAGE == 8

\* a message text or a button label: the f-string it comes from (kind) and the
\* values formatted into it
Txt(kind, str, a, b, c) == [kind |-> kind, s |-> str, a |-> a, b |-> b, c |-> c]

Label(kind, str) == Txt(kind, str, 0, 0, 0)

Button(label, data) == [text |-> label, data |-> data]

\* what a handler leaves on the screen: the message text and its inline
\* keyboard (rows of buttons), or the exception it raised instead
Rendered(text, keyboard) == [raised |-> FALSE, text |-> text, keyboard |-> keyboard]

Raised == [raised |-> TRUE, text |-> Label("exception", <<>>), keyboard |-> <<>>]

NoKeyboard == <<>>

S_none == <<"n","o","n","e">>
S_page == <<"p","a","g","e",":">>
S_sendpage == <<"s","e","n","d","p","a","g","e",":">>
S_movie == <<"m","o","v","i","e",":">>
S_series == <<"s","e","r","i","e","s",":">>
S_season == <<"s","e","a","s","o","n",":">>
S_sendall == <<"s","e","n","d","a","l","l",":">>
S_sendallq == <<"s","e","n","d","a","l","l","q",":">>
S_episode == <<"e","p","i","s","o","d","e",":">>
S_get == <<"g","e","t",":">>
S_colon == <<":">>
S_BackTo == <<"B","a","c","k"," ","t","o">>

\* str.startswith
StartsWith(str, prefix) == MatchAt(str, 1, prefix, FALSE)

RECURSIVE SplitColon(_, _)
\* str.split(":", maxsplit)
SplitColon(str, maxsplit) ==
    LET colons == {i \in 1..Len(str) : str[i] = ":"}
    IN  IF maxsplit = 0 \/ colons = {} THEN <<str>>
        ELSE <<SubSeq(str, 1, MinOf(colons) - 1)>>
             \o SplitColon(SubSeq(str, MinOf(colons) + 1, Len(str)), maxsplit - 1)

\* int(str) succeeds: the tokens of the model carry plain decimal digits or none
IsInt(str) == Len(str) >= 1 /\ \A i \in 1..Len(str) : IsDigit(str[i])

RECURSIVE Concat(_)
\* the concatenation of a sequence of sequences
Concat(seqs) == IF seqs = <<>> THEN <<>> ELSE Head(seqs) \o Concat(Tail(seqs))

\* the labels whose text holds "Back to": the three fixed back labels, and any
\* label whose formatted value holds it
LabelHasBackTo(label) ==
    \/ label.kind \in {"BackToSeasons", "BackToEpisodes", "BackToResults"}
    \/ Contains(label.s, S_BackTo)

(***************************************************************************)
(* show_search_results_page                                                *)
(***************************************************************************)
\* all_items: the movies, then the series, each with its type
AllItems(results) ==
    [i \in 1..Len(results.movies) |->
        [type |-> "movie", title |-> results.movies[i].title, key |-> results.movies[i].key]]
    \o
    [i \in 1..Len(results.series) |->
        [type |-> "series", title |-> results.series[i].title, key |-> results.series[i].key]]

\* total_pages = (total_items + ITEMS_PER_PAGE - 1) // ITEMS_PER_PAGE
TotalPages(total_items) == (total_items + ITEMS_PER_PAGE - 1) \div ITEMS_PER_PAGE

\* a slice that starts one item early for each page before it
PageItemsOverlapping(all_items, page) ==
    LET start_idx == page * (ITEMS_PER_PAGE - 1)
        total == Len(all_items)
        end_idx == IF start_idx + ITEMS_PER_PAGE < total
                   THEN start_idx + ITEMS_PER_PAGE ELSE total
    IN  IF start_idx >= end_idx THEN <<>> ELSE Slice(all_items, start_idx, end_idx)

\* all_items[start_idx:end_idx] with start_idx = page * ITEMS_PER_PAGE and
\* end_idx = min(start_idx + ITEMS_PER_PAGE, total_items)
PageItems(all_items, page) ==
    LET start_idx == page * ITEMS_PER_PAGE
        total == Len(all_items)
        end_idx == IF start_idx + ITEMS_PER_PAGE < total
                   THEN start_idx + ITEMS_PER_PAGE ELSE total
    IN  IF start_idx >= end_idx THEN <<>> ELSE Slice(all_items, start_idx, end_idx)

show_search_results_page(query, results, page) ==
    LET all_items == AllItems(results)
        total_items == Len(all_items)
        total_pages == TotalPages(total_items)
        page_items == PageItems(all_items, page)
        sendRow == IF page_items # <<>>
                   THEN << <<Button(Label("SendAllOnPage", <<>>),
                                    S_sendpage \o IntToStr(page) \o S_colon \o query)>> >>
                   ELSE <<>>
        \* the header row goes before the first item of its type on the page
        itemRows(i) ==
            LET it == page_items[i]
                first == \A j \in 1..(i - 1) : page_items[j].type # it.type
            IN  (IF first
                 THEN << <<Button(Label(IF it.type = "movie" THEN "MoviesHeader"
                                        ELSE "SeriesHeader", <<>>), S_none)>> >>
                 ELSE <<>>)
                \o << <<Button(Label("Title", it.title),
                               (IF it.type = "movie" THEN S_movie ELSE S_series) \o it.key)>> >>
        nav_buttons ==
            (IF page > 0
             THEN <<Button(Label("Previous", <<>>),
                           S_page \o IntToStr(page - 1) \o S_colon \o query)>>
             ELSE <<>>)
            \o
            (IF page < total_pages - 1
             THEN <<Button(Label("Next", <<>>),
                           S_page \o IntToStr(page + 1) \o S_colon \o query)>>
             ELSE <<>>)
        keyboard == sendRow
                    \o Concat([i \in 1..Len(page_items) |-> itemRows(i)])
                    \o (IF nav_buttons # <<>> THEN <<nav_buttons>> ELSE <<>>)
    IN  \* "Results for '{query}'\nPage {page + 1}/{total_pages} ({total_items} total results)"
        Rendered(Txt("Results", query, page + 1, total_pages, total_items), keyboard)

(***************************************************************************)
(* sorted()                                                                *)
(***************************************************************************)
\* the characters of the model in code point order
CodePointOrder == <<" ", "-", ".", "/">> \o Digits \o <<":">> \o UpperCs \o <<"_">> \o LowerCs

CodePoint(c) == CHOOSE i \in 1..Len(CodePointOrder) : CodePointOrder[i] = c

\* x < y for Python strings: by the first differing character, a proper prefix first
StrLess(x, y) ==
    \/ Len(x) < Len(y) /\ SubSeq(y, 1, Len(x)) = x
    \/ \E i \in 1..(IF Len(x) < Len(y) THEN Len(x) ELSE Len(y)) :
          /\ SubSeq(x, 1, i - 1) = SubSeq(y, 1, i - 1)
          /\ CodePoint(x[i]) < CodePoint(y[i])

\* sorted(keys, key=lambda x: int(x)): ascending by value, stable
SortedByInt(keys) ==
    LET n == Len(keys)
        before(i) == {j \in 1..n : \/ ParseNat(keys[j]) < ParseNat(keys[i])
                                   \/ ParseNat(keys[j]) = ParseNat(keys[i]) /\ j < i}
    IN  [p \in 1..n |-> keys[CHOOSE i \in 1..n : Cardinality(before(i)) = p - 1]]

\* sorted(set of strings)
SortedStrings(S) ==
    [p \in 1..Cardinality(S) |->
        CHOOSE x \in S : Cardinality({y \in S : StrLess(y, x)}) = p - 1]

(***************************************************************************)
(* Inline display functions                                                *)
(***************************************************************************)
\* MediaDatabase.get_season_qualities
get_season_qualities(sr, series_key, season_num) ==
    IF ~HasDoc(sr, series_key) THEN <<>>
    ELSE LET seasons == find_one(sr, series_key).seasons
             season == IF DictHas(seasons, IntToStr(season_num))
                       THEN DictGet(seasons, IntToStr(season_num)) ELSE EmptyDict
             qualities == UNION {{season[i].v[j].k : j \in 1..Len(season[i].v)} :
                                    i \in 1..Len(season)}
         IN  SortedStrings(qualities)

\* one row per quality of a slot dict: f"get:{d['message_id']}"
QualityRows(slots) ==
    [i \in 1..Len(slots) |->
        <<Button(Label("Quality", slots[i].k), S_get \o IntToStr(slots[i].v.message_id))>>]

show_movie_qualities(mv, movie_key) ==
    IF ~HasDoc(mv, movie_key)
    THEN Rendered(Label("MovieNotFound", <<>>), NoKeyboard)
    ELSE LET movie == find_one(mv, movie_key)
         IN  Rendered(Label("MovieSelectQuality", movie.title), QualityRows(movie.qualities))

show_series_seasons(sr, series_key) ==
    IF ~HasDoc(sr, series_key)
    THEN Rendered(Label("SeriesNotFound", <<>>), NoKeyboard)
    ELSE LET doc == find_one(sr, series_key)
             keyboard == [i \in 1..Len(doc.seasons) |->
                 <<Button(Txt("Season", doc.seasons[i].k, Len(doc.seasons[i].v), 0, 0),
                          S_season \o series_key \o S_colon \o doc.seasons[i].k)>>]
         IN  Rendered(Label("SeriesSelectSeason", doc.title), keyboard)

show_season_episodes(sr, series_key, season_num) ==
    IF ~HasDoc(sr, series_key)
    THEN Raised    \* s is None: s['seasons'] raises TypeError
    ELSE LET doc == find_one(sr, series_key)
             season == IF DictHas(doc.seasons, IntToStr(season_num))
                       THEN DictGet(doc.seasons, IntToStr(season_num)) ELSE EmptyDict
             eps == SortedByInt(DictKeys(season))
             keyboard ==
                 << <<Button(Label("SendAllEpisodes", <<>>),
                             S_sendall \o series_key \o S_colon \o IntToStr(season_num))>> >>
                 \o [i \in 1..Len(eps) |->
                        <<Button(Label("Episode", eps[i]),
                                 S_episode \o series_key \o S_colon \o IntToStr(season_num)
                                           \o S_colon \o eps[i])>>]
                 \o << <<Button(Label("BackToSeasons", <<>>), S_series \o series_key)>> >>
         IN  Rendered(Txt("SeasonSelectEpisode", doc.title, season_num, 0, 0), keyboard)

show_sendall_qualities(sr, series_key, season_num) ==
    LET qualities == get_season_qualities(sr, series_key, season_num)
    IN  IF qualities = <<>>
        THEN Rendered(Label("NoEpisodesForSeason", <<>>), NoKeyboard)
        ELSE LET doc == find_one(sr, series_key)
                 keyboard ==
                     [i \in 1..Len(qualities) |->
                        <<Button(Label("SendAllIn", qualities[i]),
                                 S_sendallq \o series_key \o S_colon \o IntToStr(season_num)
                                            \o S_colon \o qualities[i])>>]
                     \o << <<Button(Label("BackToEpisodes", <<>>),
                                    S_season \o series_key \o S_colon
                                             \o IntToStr(season_num))>> >>
             IN  Rendered(Txt("SeasonSelectBulkQuality", doc.title, season_num, 0, 0),
                          keyboard)

show_episode_qualities(sr, series_key, season_num, episode_num) ==
    IF \/ ~HasDoc(sr, series_key)
       \/ ~DictHas(find_one(sr, series_key).seasons, IntToStr(season_num))
       \/ ~DictHas(DictGet(find_one(sr, series_key).seasons, IntToStr(season_num)),
                   IntToStr(episode_num))
    THEN Raised    \* TypeError on None, or KeyError of the season or the episode
    ELSE LET doc == find_one(sr, series_key)
             episode == DictGet(DictGet(doc.seasons, IntToStr(season_num)),
                                IntToStr(episode_num))
             keyboard == QualityRows(episode)
                 \o << <<Button(Label("BackToEpisodes", <<>>),
                                S_season \o series_key \o S_colon
                                         \o IntToStr(season_num))>> >>
         IN  Rendered(Txt("EpisodeSelectQuality", doc.title, season_num, episode_num, 0),
                      keyboard)

(***************************************************************************)
(* button_callback: decoding the callback data                             *)
(***************************************************************************)
\* the branch taken and the unpacked arguments; bad: the unpacking or an int()
\* raises ValueError
Decoded(action, key, n, m, q, bad) ==
    [action |-> action, key |-> key, n |-> n, m |-> m, q |-> q, bad |-> bad]

Decode(data) ==
    IF data = S_none THEN Decoded("none", <<>>, 0, 0, <<>>, FALSE)
    ELSE IF StartsWith(data, S_page) \/ StartsWith(data, S_sendpage)
    THEN LET parts == SplitColon(data, 2)
             action == IF StartsWith(data, S_page) THEN "page" ELSE "sendpage"
         IN  IF Len(parts) # 3 \/ ~IsInt(parts[2])
             THEN Decoded(action, <<>>, 0, 0, <<>>, TRUE)
             ELSE Decoded(action, <<>>, ParseNat(parts[2]), 0, parts[3], FALSE)
    ELSE IF StartsWith(data, S_movie)
    THEN Decoded("movie", SplitColon(data, 1)[2], 0, 0, <<>>, FALSE)
    ELSE IF StartsWith(data, S_series)
    THEN Decoded("series", SplitColon(data, 1)[2], 0, 0, <<>>, FALSE)
    ELSE IF StartsWith(data, S_season) \/ StartsWith(data, S_sendall)
    THEN LET parts == SplitColon(data, 2)
             action == IF StartsWith(data, S_season) THEN "season" ELSE "sendall"
         IN  IF Len(parts) # 3 \/ ~IsInt(parts[3])
             THEN Decoded(action, <<>>, 0, 0, <<>>, TRUE)
             ELSE Decoded(action, parts[2], ParseNat(parts[3]), 0, <<>>, FALSE)
    ELSE IF StartsWith(data, S_sendallq)
    THEN LET parts == SplitColon(data, 3)
         IN  IF Len(parts) # 4 \/ ~IsInt(parts[3])
             THEN Decoded("sendallq", <<>>, 0, 0, <<>>, TRUE)
             ELSE Decoded("sendallq", parts[2], ParseNat(parts[3]), 0, parts[4], FALSE)
    ELSE IF StartsWith(data, S_episode)
    THEN LET parts == SplitColon(data, 3)
         IN  IF Len(parts) # 4 \/ ~IsInt(parts[3]) \/ ~IsInt(parts[4])
             THEN Decoded("episode", <<>>, 0, 0, <<>>, TRUE)
             ELSE Decoded("episode", parts[2], ParseNat(parts[3]), ParseNat(parts[4]),
                          <<>>, FALSE)
    ELSE IF StartsWith(data, S_get)
    THEN Decoded("get", <<>>, 0, 0, SplitColon(data, 1)[2], FALSE)
    ELSE Decoded("other", <<>>, 0, 0, <<>>, FALSE)

\* the branches of button_callback that only render a menu
MenuActions == {"page", "movie", "series", "season", "sendall", "episode"}

\* what such a branch renders for the decoded data d against the catalog
MenuFor(mv, sr, d) ==
    IF d.bad THEN Raised
    ELSE IF d.action = "page"
    THEN show_search_results_page(d.q, fuzzy_search(mv, sr, d.q), d.n)
    ELSE IF d.action = "movie" THEN show_movie_qualities(mv, d.key)
    ELSE IF d.action = "series" THEN show_series_seasons(sr, d.key)
    ELSE IF d.action = "season" THEN show_season_episodes(sr, d.key, d.n)
    ELSE IF d.action = "sendall" THEN show_sendall_qualities(sr, d.key, d.n)
    ELSE show_episode_qualities(sr, d.key, d.n, d.m)

(***************************************************************************)
(* The handlers                                                            *)
(*                                                                         *)
(* main() builds the Application with its defaults: updates are handled    *)
(* one at a time, so a handler starts only when none is running            *)
(* (pc = "idle"), and a handler suspended in an await keeps the others     *)
(* waiting.                                                                *)
(***************************************************************************)
vars == <<movies, series, adds, shown, pc, job, events, last, tasks, call>>

NoText == Label("nothing", <<>>)

Screen(text, keyboard) == [text |-> text, keyboard |-> keyboard]

\* no locator: the update carried none, or none was stored
NoLocator == [message_id |-> 0, file_id |-> "none"]

\* the record of a handled update: its handler, its data (the callback data,
\* the text or the file name), the locator add_media was called with, and
\* what the handler rendered
Handled(handler, data, loc, out) ==
    [handler |-> handler, data |-> data, loc |-> loc, out |-> out]

NoJob == [todo |-> <<>>, inner |-> <<>>, sent_count |-> 0, failed_count |-> 0,
          keyboard |-> <<>>, quality |-> <<>>, page |-> 0, query |-> <<>>]

CopyEvent(message_id, ep, ok) ==
    [ev |-> "copy", message_id |-> message_id, ep |-> ep, ok |-> ok]

SleepEvent == [ev |-> "sleep", message_id |-> 0, ep |-> 0, ok |-> TRUE]

\* the clients of the store that call add_media
Workers == {"w1", "w2"}

NoDoc == [key |-> <<>>, title |-> <<>>, year |-> None, qualities |-> EmptyDict,
          seasons |-> EmptyDict]

IdleTask == [pc |-> "idle", filename |-> <<>>, loc |-> NoLocator, doc |-> NoDoc]

NoTasks == [at |-> [w \in Workers |-> IdleTask], done |-> {}]

NoCall == [fn |-> "none", done |-> FALSE, arg |-> <<>>, out |-> <<>>]

Init ==
    /\ movies = <<>>
    /\ series = <<>>
    /\ adds = 0
    /\ shown = Screen(NoText, NoKeyboard)
    /\ pc = "idle"
    /\ job = NoJob
    /\ events = <<>>
    /\ last = Handled("none", <<>>, NoLocator, Rendered(NoText, NoKeyboard))
    /\ tasks = NoTasks
    /\ call = NoCall

\* a handler that indexes the file of any sender
handle_media_message_anyone(user, file_name, chat_id, forwarded, loc, forward_ok) ==
    /\ pc = "idle"
    /\ LET filename == IF file_name = None THEN VideoName(chat_id) ELSE file_name
       IN  IF forwarded \/ forward_ok
           THEN /\ adds < MaxAdds
                /\ LET db == add_media(movies, series, loc.message_id, filename, loc.file_id)
                   IN  /\ movies' = db.movies
                       /\ series' = db.series
                /\ adds' = adds + 1
                /\ last' = Handled("handle_media_message", filename, loc,
                                   IF forwarded
                                   THEN Rendered(NoText, NoKeyboard)
                                   ELSE Rendered(Label("Indexed", filename), NoKeyboard))
           ELSE /\ last' = Handled("handle_media_message", filename, NoLocator,
                                   Rendered(Label("ErrorIndexing", filename), NoKeyboard))
                /\ UNCHANGED <<movies, series, adds>>
    /\ UNCHANGED <<shown, pc, job, events, tasks, call>>

\* handle_media_message: user posts a file named file_name (None: a video
\* without a name) as chat message chat_id; forwarded is TRUE when the post
\* is a forward from the private channel, of message loc.message_id;
\* otherwise the bot forwards it there itself, which succeeds (as message
\* loc.message_id) or raises
handle_media_message(user, file_name, chat_id, forwarded, loc, forward_ok) ==
    /\ pc = "idle"
    /\ LET filename == IF file_name = None THEN VideoName(chat_id) ELSE file_name
       IN  IF user \notin ADMIN_IDS
           THEN /\ last' = Handled("handle_media_message", filename, NoLocator,
                                   Rendered(Label("NotAuthorized", <<>>), NoKeyboard))
                /\ UNCHANGED <<movies, series, adds>>
           ELSE IF forwarded \/ forward_ok
           THEN /\ adds < MaxAdds
                /\ LET db == add_media(movies, series, loc.message_id, filename, loc.file_id)
                   IN  /\ movies' = db.movies
                       /\ series' = db.series
                /\ adds' = adds + 1
                /\ last' = Handled("handle_media_message", filename, loc,
                                   IF forwarded
                                   THEN Rendered(NoText, NoKeyboard)   \* print() only
                                   ELSE Rendered(Label("Indexed", filename), NoKeyboard))
           ELSE /\ last' = Handled("handle_media_message", filename, NoLocator,
                                   Rendered(Label("ErrorIndexing", filename), NoKeyboard))
                /\ UNCHANGED <<movies, series, adds>>
    /\ UNCHANGED <<shown, pc, job, events, tasks, call>>

\* the inputs that cannot matter to a branch are not enumerated for it
HandleMediaMessage ==
    \E file_name \in FileNames, chat_id \in ChatMessageIds :
        \/ handle_media_message(OtherUser, file_name, chat_id, FALSE, NoLocator, FALSE)
        \/ handle_media_message(AdminUser, file_name, chat_id, FALSE, NoLocator, FALSE)
        \/ \E forwarded \in BOOLEAN, loc \in Locators :
              handle_media_message(AdminUser, file_name, chat_id, forwarded, loc, TRUE)

\* handle_media_message of an admin when the store is unavailable: find_one
\* or update_one of add_media raises and nothing is written. The call for a
\* file forwarded from the channel is outside any try block: the exception
\* leaves the handler. The call that follows the bot's own forward is inside
\* the try block, whose except branch replies with the error.
handle_media_message_store_down(file_name, chat_id, forwarded) ==
    /\ pc = "idle"
    /\ LET filename == IF file_name = None THEN VideoName(chat_id) ELSE file_name
       IN  last' = Handled("handle_media_message", filename, NoLocator,
                           IF forwarded THEN Raised
                           ELSE Rendered(Label("ErrorIndexing", filename), NoKeyboard))
    /\ UNCHANGED <<movies, series, adds, shown, pc, job, events, tasks, call>>

HandleMediaMessageStoreDown ==
    \E file_name \in FileNames, chat_id \in ChatMessageIds, forwarded \in BOOLEAN :
        handle_media_message_store_down(file_name, chat_id, forwarded)

\* /start: the welcome text, with the line about /index for an admin
start(user) ==
    /\ pc = "idle"
    /\ last' = Handled("start", <<>>, NoLocator,
                       Rendered(Label(IF user \in ADMIN_IDS THEN "WelcomeAdmin"
                                      ELSE "Welcome", <<>>), NoKeyboard))
    /\ UNCHANGED <<movies, series, adds, shown, pc, job, events, tasks, call>>

\* /stats: count_documents of the two collections
stats ==
    /\ pc = "idle"
    /\ last' = Handled("stats", <<>>, NoLocator,
                       Rendered(Txt("Stats", <<>>, Len(movies), Len(series), 0),
                                NoKeyboard))
    /\ UNCHANGED <<movies, series, adds, shown, pc, job, events, tasks, call>>

\* /index: a hint for an admin, a refusal for anyone else
index_channel(user) ==
    /\ pc = "idle"
    /\ last' = Handled("index_channel", <<>>, NoLocator,
                       Rendered(Label(IF user \in ADMIN_IDS THEN "ForwardFilesHere"
                                      ELSE "AdminsOnly", <<>>), NoKeyboard))
    /\ UNCHANGED <<movies, series, adds, shown, pc, job, events, tasks, call>>

Commands ==
    \E user \in Users :
        \/ start(user)
        \/ stats
        \/ index_channel(user)

\* search_media: a text message; the first page of the results replaces the menu
search_media(text) ==
    /\ pc = "idle"
    /\ LET query == Strip(text)
           results == fuzzy_search(movies, series, query)
       IN  IF query = <<>> \/ StartsWith(query, <<"/">>)
           THEN /\ last' = Handled("search_media", text, NoLocator, Rendered(NoText, NoKeyboard))
                /\ UNCHANGED shown
           ELSE IF results.movies = <<>> /\ results.series = <<>>
           THEN /\ last' = Handled("search_media", text, NoLocator,
                                   Rendered(Label("NoResults", query), NoKeyboard))
                /\ UNCHANGED shown
           ELSE LET out == show_search_results_page(query, results, 0)
                IN  /\ shown' = Screen(out.text, out.keyboard)
                    /\ last' = Handled("search_media", text, NoLocator, out)
    /\ UNCHANGED <<movies, series, adds, pc, job, events, tasks, call>>

\* the tokens on the buttons of a keyboard
KeyboardTokens(keyboard) ==
    UNION {{keyboard[r][c].data : c \in 1..Len(keyboard[r])} : r \in 1..Len(keyboard)}

\* button_callback for "none" and for the branches that render a menu
button_menu(data) ==
    /\ pc = "idle"
    /\ LET d == Decode(data)
       IN  /\ d.action \in MenuActions \cup {"none", "other"}
           /\ IF d.action \in MenuActions
              THEN LET out == MenuFor(movies, series, d)
                   IN  /\ shown' = IF out.raised THEN shown
                                   ELSE Screen(out.text, out.keyboard)
                       /\ last' = Handled("button_callback", data, NoLocator, out)
              ELSE /\ UNCHANGED shown      \* nothing is rendered
                   /\ last' = Handled("button_callback", data, NoLocator,
                                      Rendered(NoText, NoKeyboard))
    /\ UNCHANGED <<movies, series, adds, pc, job, events, tasks, call>>

\* the callback of the first button of the previous keyboard whose text holds
\* "Back to", or None
BackCallback(keyboard) ==
    LET rows == {r \in 1..Len(keyboard) :
                    \E c \in 1..Len(keyboard[r]) : LabelHasBackTo(keyboard[r][c].text)}
    IN  IF rows = {} THEN None
        ELSE LET r == MinOf(rows)
                 c == MinOf({x \in 1..Len(keyboard[r]) :
                                LabelHasBackTo(keyboard[r][x].text)})
             IN  keyboard[r][c].data

\* what the "get:" branch renders after a successful copy_message, from the
\* keyboard the pressed message had: "File sent!" and, when a back callback
\* was found there, one "Back" button with it
FileSent(prev_keyboard) ==
    LET back_callback == BackCallback(prev_keyboard)
        keyboard == IF back_callback # None
                    THEN << <<Button(Label("Back", <<>>), back_callback)>> >>
                    ELSE NoKeyboard
    IN  Rendered(Label("FileSent", <<>>), keyboard)

\* button_callback for "get:<message_id>": copy_message succeeds (ok) or raises;
\* the "Sending file..." text shown while it runs is replaced before the
\* handler is suspended
button_get(data, ok) ==
    /\ pc = "idle"
    /\ LET d == Decode(data)
           out == FileSent(shown.keyboard)
       IN  /\ d.action = "get"
           /\ IF IsInt(d.q) /\ ok
              THEN /\ events' = <<CopyEvent(ParseNat(d.q), 0, TRUE)>>
                   /\ shown' = Screen(out.text, out.keyboard)
                   /\ last' = Handled("button_callback", data, NoLocator, out)
                   /\ pc' = "sleep60"     \* await asyncio.sleep(60)
              ELSE /\ events' = IF IsInt(d.q) THEN <<CopyEvent(ParseNat(d.q), 0, FALSE)>>
                                ELSE <<>>
                   /\ shown' = Screen(Label("Error", <<>>), NoKeyboard)
                   /\ last' = Handled("button_callback", data, NoLocator,
                                      Rendered(Label("Error", <<>>), NoKeyboard))
                   /\ pc' = "idle"
    /\ UNCHANGED <<movies, series, adds, job, tasks, call>>

\* after the 60 seconds: edit_message_reply_markup(reply_markup=None), the
\* handler returns
RemoveButtons ==
    /\ pc = "sleep60"
    /\ shown' = Screen(shown.text, NoKeyboard)
    /\ pc' = "idle"
    /\ job' = NoJob
    /\ events' = <<>>
    /\ UNCHANGED <<movies, series, adds, last, tasks, call>>

(***************************************************************************)
(* send_all_episodes                                                       *)
(***************************************************************************)
\* the episode keys in the order the dict holds them
EpisodeKeyOrderStored(season) == DictKeys(season)

\* episodes_to_send: (int(ep_num), message_id) of the episodes of the season
\* that have the quality, in ascending order of the episode number
EpisodeKeyOrder(season) == SortedByInt(DictKeys(season))

EpisodesToSend(sr, series_key, season_num, quality) ==
    LET seasons == find_one(sr, series_key).seasons
        season == IF DictHas(seasons, IntToStr(season_num))
                  THEN DictGet(seasons, IntToStr(season_num)) ELSE EmptyDict
        eps == EpisodeKeyOrder(season)
        Has(ep_num) == DictHas(DictGet(season, ep_num), quality)
        with == SelectSeq(eps, Has)
    IN  [i \in 1..Len(with) |->
            [ep |-> ParseNat(with[i]),
             message_id |-> DictGet(DictGet(season, with[i]), quality).message_id]]

\* button_callback for "sendallq:": send_all_episodes up to its loop
button_sendallq(data) ==
    /\ pc = "idle"
    /\ LET d == Decode(data)
       IN  /\ d.action = "sendallq"
           /\ IF d.bad
              THEN /\ last' = Handled("button_callback", data, NoLocator, Raised)
                   /\ UNCHANGED <<shown, pc, job, events>>
              ELSE IF ~HasDoc(series, d.key)
              THEN /\ shown' = Screen(Label("SeriesNotFound", <<>>), NoKeyboard)
                   /\ last' = Handled("button_callback", data, NoLocator,
                                      Rendered(Label("SeriesNotFound", <<>>), NoKeyboard))
                   /\ UNCHANGED <<pc, job, events>>
              ELSE IF EpisodesToSend(series, d.key, d.n, d.q) = <<>>
              THEN /\ shown' = Screen(Label("NoEpisodesInQuality", d.q), NoKeyboard)
                   /\ last' = Handled("button_callback", data, NoLocator,
                                      Rendered(Label("NoEpisodesInQuality", d.q), NoKeyboard))
                   /\ UNCHANGED <<pc, job, events>>
              ELSE LET todo == EpisodesToSend(series, d.key, d.n, d.q)
                       keyboard == << <<Button(Label("BackToEpisodes", <<>>),
                                               S_season \o d.key \o S_colon
                                                        \o IntToStr(d.n))>> >>
                       text == Txt("SendingEpisodes", d.q, Len(todo), 0, 0)
                   IN  /\ shown' = Screen(text, keyboard)
                       /\ last' = Handled("button_callback", data, NoLocator, Rendered(text, keyboard))
                       /\ job' = [NoJob EXCEPT !.inner = todo, !.keyboard = keyboard,
                                               !.quality = d.q]
                       /\ events' = <<>>
                       /\ pc' = "send_all_episodes"
    /\ UNCHANGED <<movies, series, adds, tasks, call>>

\* what one delivery attempt appends to the events: the copy_message call
\* and, when it succeeded, the pacing sleep that follows it in the try block
AttemptEvents(item, ok) ==
    IF ok THEN <<CopyEvent(item.message_id, item.ep, TRUE), SleepEvent>>
    ELSE <<CopyEvent(item.message_id, item.ep, FALSE)>>

\* a loop that a failed copy_message ends
send_all_episodes_step_abort(ok) ==
    /\ pc = "send_all_episodes"
    /\ job.inner # <<>>
    /\ events' = events \o AttemptEvents(Head(job.inner), ok)
    /\ job' = [job EXCEPT !.inner = IF ok THEN Tail(@) ELSE <<>>,
                          !.sent_count = IF ok THEN @ + 1 ELSE @,
                          !.failed_count = IF ok THEN @ ELSE @ + 1]
    /\ UNCHANGED <<movies, series, adds, shown, pc, last, tasks, call>>

\* one iteration of the loop of send_all_episodes: copy_message succeeds or raises
send_all_episodes_step(ok) ==
    /\ pc = "send_all_episodes"
    /\ job.inner # <<>>
    /\ events' = events \o AttemptEvents(Head(job.inner), ok)
    /\ job' = [job EXCEPT !.inner = Tail(@),
                          !.sent_count = IF ok THEN @ + 1 ELSE @,
                          !.failed_count = IF ok THEN @ ELSE @ + 1]
    /\ UNCHANGED <<movies, series, adds, shown, pc, last, tasks, call>>

\* after the loop: the final status with the keyboard of the progress message
send_all_episodes_finish ==
    /\ pc = "send_all_episodes"
    /\ job.inner = <<>>
    /\ LET text == Txt("SentEpisodes", job.quality, job.sent_count, job.failed_count, 0)
       IN  /\ shown' = Screen(text, job.keyboard)
           /\ last' = Handled("button_callback", last.data, NoLocator, Rendered(text, job.keyboard))
    /\ pc' = "sleep60"
    /\ UNCHANGED <<movies, series, adds, job, events, tasks, call>>

(***************************************************************************)
(* send_all_on_page                                                        *)
(***************************************************************************)
\* quality_priority = ['1080P', '720P', '480P', '4K', '2160P']
QualityPriority == << <<"1","0","8","0","P">>, <<"7","2","0","P">>, <<"4","8","0","P">>,
                      <<"4","K">>, <<"2","1","6","0","P">> >>

\* the best quality of an episode: the first of quality_priority it has, else
\* its first key
BestQuality(episode) ==
    LET have == {i \in 1..Len(QualityPriority) : DictHas(episode, QualityPriority[i])}
    IN  IF have # {} THEN QualityPriority[MinOf(have)] ELSE episode[1].k

\* the deliveries of one page item: every quality of a movie; of a series the
\* first episode of the first season in its best quality
ItemDeliveries(mv, sr, item) ==
    IF item.type = "movie"
    THEN LET qualities == find_one(mv, item.key).qualities
         IN  [i \in 1..Len(qualities) |->
                 [ep |-> 0, message_id |-> qualities[i].v.message_id]]
    ELSE IF ~HasDoc(sr, item.key) \/ find_one(sr, item.key).seasons = EmptyDict
    THEN <<>>
    ELSE LET seasons == find_one(sr, item.key).seasons
             first_season == SortedByInt(DictKeys(seasons))[1]
             season == DictGet(seasons, first_season)
         IN  IF season = EmptyDict THEN <<>>
             ELSE LET first_ep == SortedByInt(DictKeys(season))[1]
                      episode == DictGet(season, first_ep)
                  IN  <<[ep |-> 0,
                         message_id |-> DictGet(episode, BestQuality(episode)).message_id]>>

\* button_callback for "sendpage:": send_all_on_page up to its loop
button_sendpage(data) ==
    /\ pc = "idle"
    /\ LET d == Decode(data)
       IN  /\ d.action = "sendpage"
           /\ IF d.bad
              THEN /\ last' = Handled("button_callback", data, NoLocator, Raised)
                   /\ UNCHANGED <<shown, pc, job, events>>
              ELSE LET results == fuzzy_search(movies, series, d.q)
                       page_items == PageItems(AllItems(results), d.n)
                       text == Txt("SendingPage", <<>>, d.n + 1, 0, 0)
                   IN  /\ shown' = Screen(text, NoKeyboard)
                       /\ last' = Handled("button_callback", data, NoLocator, Rendered(text, NoKeyboard))
                       /\ job' = [NoJob EXCEPT !.todo = page_items, !.page = d.n,
                                               !.query = d.q]
                       /\ events' = <<>>
                       /\ pc' = "send_all_on_page"
    /\ UNCHANGED <<movies, series, adds, tasks, call>>

\* the outer loop of send_all_on_page takes the next item of the page; a movie
\* that is not in the collection raises at movie['qualities'], which the outer
\* except counts as one failure
send_all_on_page_item ==
    /\ pc = "send_all_on_page"
    /\ job.inner = <<>>
    /\ job.todo # <<>>
    /\ LET item == Head(job.todo)
       IN  IF item.type = "movie" /\ ~HasDoc(movies, item.key)
           THEN job' = [job EXCEPT !.todo = Tail(@), !.failed_count = @ + 1]
           ELSE job' = [job EXCEPT !.todo = Tail(@),
                                   !.inner = ItemDeliveries(movies, series, item)]
    /\ UNCHANGED <<movies, series, adds, shown, pc, events, last, tasks, call>>

\* one delivery of send_all_on_page: copy_message succeeds or raises
send_all_on_page_step(ok) ==
    /\ pc = "send_all_on_page"
    /\ job.inner # <<>>
    /\ events' = events \o AttemptEvents(Head(job.inner), ok)
    /\ job' = [job EXCEPT !.inner = Tail(@),
                          !.sent_count = IF ok THEN @ + 1 ELSE @,
                          !.failed_count = IF ok THEN @ ELSE @ + 1]
    /\ UNCHANGED <<movies, series, adds, shown, pc, last, tasks, call>>

\* after the loops: the completion message with "Back to Results"
send_all_on_page_finish ==
    /\ pc = "send_all_on_page"
    /\ job.inner = <<>>
    /\ job.todo = <<>>
    /\ LET text == Txt("SentFiles", <<>>, job.sent_count, job.failed_count, 0)
           keyboard == << <<Button(Label("BackToResults", <<>>),
                                   S_page \o IntToStr(job.page) \o S_colon \o job.query)>> >>
       IN  /\ shown' = Screen(text, keyboard)
           /\ last' = Handled("button_callback", last.data, NoLocator, Rendered(text, keyboard))
    /\ pc' = "sleep60"
    /\ UNCHANGED <<movies, series, adds, job, events, tasks, call>>

(***************************************************************************)
(* The updates of the model and the specification                          *)
(***************************************************************************)
Str_a == <<"a">>
Str_b == <<"b">>
Str_z == <<"z">>
Str_zz == <<"z", "z">>
Str_720P == <<"7","2","0","P">>
Str_4K == <<"4","K">>

\* the texts typed by users
SearchTexts == {Str_a, Str_b, Str_zz, <<" ">>}

\* callback data of buttons of earlier messages, whose target may be gone
StaleTokens ==
    { S_none,
      S_page \o <<"0">> \o S_colon \o Str_zz,
      S_page \o <<"5">> \o S_colon \o Str_a,
      S_sendpage \o <<"0">> \o S_colon \o Str_a,
      S_movie \o Str_a, S_movie \o Str_z,
      S_series \o Str_b, S_series \o Str_z,
      S_season \o Str_b \o <<":","1">>, S_season \o Str_b \o <<":","3">>,
      S_season \o Str_z \o <<":","1">>,
      S_sendall \o Str_b \o <<":","3">>, S_sendall \o Str_z \o <<":","1">>,
      S_sendallq \o Str_b \o <<":","1",":">> \o Str_720P,
      S_sendallq \o Str_b \o <<":","1",":">> \o Str_4K,
      S_sendallq \o Str_z \o <<":","1",":">> \o Str_720P,
      S_episode \o Str_b \o <<":","1",":","2">>,
      S_episode \o Str_b \o <<":","1",":","5">>,
      S_episode \o Str_b \o <<":","3",":","1">>,
      S_episode \o Str_z \o <<":","1",":","1">> }

\* the callback data a press can carry: a button of the menu on the screen,
\* or a button rendered before the store was changed
Pressable == KeyboardTokens(shown.keyboard) \cup StaleTokens

SearchMedia == \E text \in SearchTexts : search_media(text)

ButtonMenu == \E data \in Pressable : button_menu(data)

\* the "get:" branch reads the keyboard of the message whose button was
\* pressed: the press is of a button on the screen
ButtonGet ==
    \E data \in KeyboardTokens(shown.keyboard), ok \in BOOLEAN : button_get(data, ok)

ButtonSendAllQ == \E data \in Pressable : button_sendallq(data)

ButtonSendPage == \E data \in Pressable : button_sendpage(data)

SendAllEpisodesStep == \E ok \in BOOLEAN : send_all_episodes_step(ok)

SendAllOnPageStep == \E ok \in BOOLEAN : send_all_on_page_step(ok)

(***************************************************************************)
(* add_media by clients that share the store                               *)
(*                                                                         *)
(* One bot process handles its updates one at a time, and add_media does   *)
(* not await: within a process its find_one and update_one are never       *)
(* separated.  They are two requests to the MongoDB server, though, and a  *)
(* second instance of the bot on the same MONGO_URI (a redeploy that       *)
(* overlaps the old instance, a second replica) issues its own between     *)
(* them.                                                                   *)
(***************************************************************************)
\* the document add_media builds from what find_one returned
DocToWrite(mv, sr, filename, loc) ==
    LET parsed == Parse(filename)
    IN  IF parsed.type = "series"
        THEN LET d == SeriesUpdate(sr, parsed, loc.message_id, loc.file_id)
             IN  [NoDoc EXCEPT !.key = d.key, !.title = d.title, !.seasons = d.seasons]
        ELSE LET d == MovieUpdate(mv, parsed, loc.message_id, loc.file_id)
             IN  [NoDoc EXCEPT !.key = d.key, !.title = d.title, !.year = d.year,
                               !.qualities = d.qualities]

\* add_media up to its update_one: find_one, and the slot set in the copy
add_media_read(w, filename, loc) ==
    /\ tasks.at[w].pc = "idle"
    /\ adds < MaxAdds
    /\ adds' = adds + 1
    /\ tasks' = [tasks EXCEPT !.at[w] =
                    [pc |-> "found", filename |-> filename, loc |-> loc,
                     doc |-> DocToWrite(movies, series, filename, loc)]]
    /\ UNCHANGED <<movies, series, shown, pc, job, events, last, call>>

\* the update_one of add_media: $set of the copy read earlier
add_media_write(w) ==
    /\ tasks.at[w].pc = "found"
    /\ LET t == tasks.at[w]
           parsed == Parse(t.filename)
       IN  IF parsed.type = "series"
           THEN /\ series' = update_one(series, t.doc.key,
                                 IF HasDoc(series, t.doc.key)
                                 THEN [find_one(series, t.doc.key) EXCEPT
                                          !.seasons = t.doc.seasons, !.title = t.doc.title]
                                 ELSE [key |-> t.doc.key, title |-> t.doc.title,
                                       seasons |-> t.doc.seasons])
                /\ UNCHANGED movies
           ELSE /\ movies' = update_one(movies, t.doc.key,
                                 [key |-> t.doc.key, title |-> t.doc.title,
                                  year |-> t.doc.year, qualities |-> t.doc.qualities])
                /\ UNCHANGED series
    /\ tasks' = [at |-> [tasks.at EXCEPT ![w] = IdleTask],
                 done |-> tasks.done \cup {[filename |-> tasks.at[w].filename,
                                            loc |-> tasks.at[w].loc]}]
    /\ UNCHANGED <<adds, shown, pc, job, events, last, call>>

AddMediaRead ==
    \E w \in Workers, filename \in PostedNames, loc \in Locators :
        add_media_read(w, filename, loc)

AddMediaWrite == \E w \in Workers : add_media_write(w)

(***************************************************************************)
(* Specifications                                                          *)
(***************************************************************************)
\* every handler of one bot process
Next ==
    \/ HandleMediaMessage
    \/ HandleMediaMessageStoreDown
    \/ Commands
    \/ SearchMedia
    \/ ButtonMenu
    \/ ButtonGet
    \/ ButtonSendAllQ
    \/ ButtonSendPage
    \/ SendAllEpisodesStep
    \/ send_all_episodes_finish
    \/ send_all_on_page_item
    \/ SendAllOnPageStep
    \/ send_all_on_page_finish
    \/ RemoveButtons

\* the bot on an empty store
Spec == Init /\ [][Next]_vars

\* the files posted to the bot on an empty store
SpecCatalog == Init /\ [][HandleMediaMessage]_vars

\* the files posted to the bot, the store being available or not
NextIngest ==
    \/ HandleMediaMessage
    \/ HandleMediaMessageStoreDown

SpecIngest == Init /\ [][NextIngest]_vars

\* an admin forwards numbered episodes from the channel, or posts them
HandleNumbered ==
    \E file_name \in NumberedNames, chat_id \in ChatMessageIds,
       forwarded \in BOOLEAN, loc \in Locators :
        handle_media_message(AdminUser, file_name, chat_id, forwarded, loc, TRUE)

SpecNumbered == Init /\ [][HandleNumbered]_vars

\* the store outlives the process: a bot starts on what earlier runs stored.
\* Each stored catalog is the result of add_media calls on the empty store.
RECURSIVE Ingested(_)
Ingested(posts) ==
    IF posts = <<>> THEN [movies |-> <<>>, series |-> <<>>]
    ELSE LET db == Ingested(SubSeq(posts, 1, Len(posts) - 1))
             post == posts[Len(posts)]
         IN  add_media(db.movies, db.series, post.loc.message_id, post.filename,
                       post.loc.file_id)

Post(filename, message_id, file_id) ==
    [filename |-> filename, loc |-> [message_id |-> message_id, file_id |-> file_id]]

StoredCatalogs ==
    { Ingested(<<>>),
      Ingested(<<Post(File_A_2020_720, 1, "fA"), Post(File_a_1080, 2, "fB")>>),
      Ingested(<<Post(File_b_s01e10_720, 1, "fA"), Post(File_B_S01E02_720, 2, "fB"),
                 Post(File_B_S01E01_480, 3, "fC"), Post(File_A_2020_720, 4, "fD")>>),
      Ingested(<<Post(File_B_S02E01, 1, "fA"), Post(File_B_S01E02_720, 2, "fB")>>),
      \* a channel post whose file was replaced, forwarded before and after
      Ingested(<<Post(File_A_2020_720, 1, "fA"), Post(File_B_S01E02_720, 1, "fB")>>) }

InitStored ==
    /\ \E db \in StoredCatalogs : movies = db.movies /\ series = db.series
    /\ adds = 0
    /\ shown = Screen(NoText, NoKeyboard)
    /\ pc = "idle"
    /\ job = NoJob
    /\ events = <<>>
    /\ last = Handled("none", <<>>, NoLocator, Rendered(NoText, NoKeyboard))
    /\ tasks = NoTasks
    /\ call = NoCall

\* searches and menu navigation on a stored catalog
NextMenus ==
    \/ SearchMedia
    \/ ButtonMenu
    \/ ButtonGet
    \/ RemoveButtons

SpecMenus == InitStored /\ [][NextMenus]_vars

\* searches, menus and bulk dispatches on a stored catalog
NextDispatch ==
    \/ SearchMedia
    \/ ButtonMenu
    \/ ButtonSendAllQ
    \/ ButtonSendPage
    \/ SendAllEpisodesStep
    \/ send_all_episodes_finish
    \/ send_all_on_page_item
    \/ SendAllOnPageStep
    \/ send_all_on_page_finish
    \/ RemoveButtons

SpecDispatch == InitStored /\ [][NextDispatch]_vars

\* two clients of one store that post files
NextShared ==
    \/ AddMediaRead
    \/ AddMediaWrite

SpecShared == Init /\ [][NextShared]_vars

(***************************************************************************)
(* parse_filename on its own                                               *)
(***************************************************************************)
\* the file names parsed: a title, then up to three tokens (a year, a
\* quality, a four-digit number, a season/episode marker), then an extension
\* or none
\* "Show.Name", "show_name", "Show..Name", "A"
NameTitles ==
    { <<"S","h","o","w",".","N","a","m","e">>,
      <<"s","h","o","w","_","n","a","m","e">>,
      <<"S","h","o","w",".",".","N","a","m","e">>,
      <<"A">> }

\* "", ".2020", ".1080p", ".1234"
NameTokens1 ==
    { <<>>,
      <<".","2","0","2","0">>,
      <<".","1","0","8","0","p">>,
      <<".","1","2","3","4">> }

\* "", ".S02E05", ".s1e10", ".S00E01"
NameTokens2 ==
    { <<>>,
      <<".","S","0","2","E","0","5">>,
      <<".","s","1","e","1","0">>,
      <<".","S","0","0","E","0","1">> }

\* "", ".720p", ".360p", ".1999"
NameTokens3 ==
    { <<>>,
      <<".","7","2","0","p">>,
      <<".","3","6","0","p">>,
      <<".","1","9","9","9">> }

\* ".mkv", ""
NameExtensions ==
    { <<".","m","k","v">>,
      <<>> }

ParseInputs ==
    {t \o a \o b \o c \o x :
        t \in NameTitles, a \in NameTokens1, b \in NameTokens2, c \in NameTokens3,
        x \in NameExtensions}

\* a file name is given
InitParse ==
    /\ movies = <<>>
    /\ series = <<>>
    /\ adds = 0
    /\ shown = Screen(NoText, NoKeyboard)
    /\ pc = "idle"
    /\ job = NoJob
    /\ events = <<>>
    /\ last = Handled("none", <<>>, NoLocator, Rendered(NoText, NoKeyboard))
    /\ tasks = NoTasks
    /\ \E filename \in ParseInputs :
          call = [fn |-> "parse_filename", done |-> FALSE, arg |-> filename, out |-> <<>>]

\* db.parse_filename(filename) returns
ParseFilename ==
    /\ call.fn = "parse_filename"
    /\ ~call.done
    /\ call' = [call EXCEPT !.done = TRUE, !.out = parse_filename(call.arg)]
    /\ UNCHANGED <<movies, series, adds, shown, pc, job, events, last, tasks>>

SpecParse == InitParse /\ [][ParseFilename]_vars

(***************************************************************************)
(* fuzzy_search on its own                                                 *)
(***************************************************************************)
\* the number of files a searched catalog was built from, at most
MaxCatalog == 3

\* the sequences of at most MaxCatalog different files, posted as the
\* channel messages 1, 2, ...
PostSequences ==
    UNION {{q \in [1..n -> SearchNames] : \A i, j \in 1..n : q[i] = q[j] => i = j} :
              n \in 0..MaxCatalog}

PostsOf(q) == [i \in 1..Len(q) |-> Post(q[i], i, "fA")]

\* "bad", "BAD", "bat", "br", "zz", ""
Queries ==
    { <<"b","a","d">>, <<"B","A","D">>, <<"b","a","t">>, <<"b","r">>, <<"z","z">>, <<>> }

\* a query is given, against a catalog that add_media built
InitSearch ==
    /\ \E q \in PostSequences :
          /\ movies = Ingested(PostsOf(q)).movies
          /\ series = Ingested(PostsOf(q)).series
    /\ adds = 0
    /\ shown = Screen(NoText, NoKeyboard)
    /\ pc = "idle"
    /\ job = NoJob
    /\ events = <<>>
    /\ last = Handled("none", <<>>, NoLocator, Rendered(NoText, NoKeyboard))
    /\ tasks = NoTasks
    /\ \E query \in Queries :
          call = [fn |-> "fuzzy_search", done |-> FALSE, arg |-> query, out |-> <<>>]

\* db.fuzzy_search(query) returns
FuzzySearch ==
    /\ call.fn = "fuzzy_search"
    /\ ~call.done
    /\ call' = [call EXCEPT !.done = TRUE, !.out = fuzzy_search(movies, series, call.arg)]
    /\ UNCHANGED <<movies, series, adds, shown, pc, job, events, last, tasks>>

SpecSearch == InitSearch /\ [][FuzzySearch]_vars

(***************************************************************************)
(* The pages of the search results                                         *)
(***************************************************************************)
\* how many movies and how many series the store holds at most
MaxMovies == 10
MaxSeries == 8

\* "x1", "x2", ...: titles that all hold "x"
PagedTitle(i) == <<"x">> \o IntToStr(i)

\* "x1.mkv", ...
PagedMovie(i) == PagedTitle(i) \o <<".","m","k","v">>

\* "x1.S01E01.mkv", ...
PagedEpisode(i) == PagedTitle(i) \o <<".","S","0","1","E","0","1",".","m","k","v">>

\* the store after nm movies and ns episodes of ns series were posted, the
\* greatest title first
PagedCatalog(nm, ns) ==
    Ingested([i \in 1..(nm + ns) |->
                 IF i <= nm THEN Post(PagedMovie(nm + 1 - i), i, "fA")
                 ELSE Post(PagedEpisode(nm + ns + 1 - i), i, "fA")])

\* "x": in every key; "x1": in some, and close to some
PagedTexts == { <<"x">>, <<"x","1">> }

InitPaged ==
    /\ \E nm \in 0..MaxMovies, ns \in 0..MaxSeries :
          /\ movies = PagedCatalog(nm, ns).movies
          /\ series = PagedCatalog(nm, ns).series
    /\ adds = 0
    /\ shown = Screen(NoText, NoKeyboard)
    /\ pc = "idle"
    /\ job = NoJob
    /\ events = <<>>
    /\ last = Handled("none", <<>>, NoLocator, Rendered(NoText, NoKeyboard))
    /\ tasks = NoTasks
    /\ call = NoCall

\* a user types a query
SearchPaged == \E text \in PagedTexts : search_media(text)

\* a user presses Previous or Next of the page on the screen
ButtonPage ==
    \E data \in KeyboardTokens(shown.keyboard) :
        /\ Decode(data).action = "page"
        /\ button_menu(data)

NextPaged ==
    \/ SearchPaged
    \/ ButtonPage

\* searches and page turns on a stored catalog that is not changed
SpecPaged == InitPaged /\ [][NextPaged]_vars

(***************************************************************************)
(* The tokens of the menus                                                 *)
(***************************************************************************)
\* files whose titles hold the delimiter of the tokens or are empty:
\* "a:b.S01E02.720p.mkv", "B.S01E02.720p.mkv", "S01E01.480p.mkv",
\* "a:b.S02E01.mkv", "a:b.1080p.mkv", "2020.mkv", "B.S01E10.mkv"
TokenPosts ==
    << Post(<<"a",":","b",".","S","0","1","E","0","2",".","7","2","0","p",".","m","k","v">>, 1, "fA"),
       Post(<<"B",".","S","0","1","E","0","2",".","7","2","0","p",".","m","k","v">>, 2, "fA"),
       Post(<<"S","0","1","E","0","1",".","4","8","0","p",".","m","k","v">>, 3, "fA"),
       Post(<<"a",":","b",".","S","0","2","E","0","1",".","m","k","v">>, 4, "fA"),
       Post(<<"a",":","b",".","1","0","8","0","p",".","m","k","v">>, 5, "fA"),
       Post(<<"2","0","2","0",".","m","k","v">>, 6, "fA"),
       Post(<<"B",".","S","0","1","E","1","0",".","m","k","v">>, 7, "fA") >>

\* the store after the first files were posted
InitTokens ==
    /\ \E n \in 0..Len(TokenPosts) :
          /\ movies = Ingested(SubSeq(TokenPosts, 1, n)).movies
          /\ series = Ingested(SubSeq(TokenPosts, 1, n)).series
    /\ adds = 0
    /\ shown = Screen(NoText, NoKeyboard)
    /\ pc = "idle"
    /\ job = NoJob
    /\ events = <<>>
    /\ last = Handled("none", <<>>, NoLocator, Rendered(NoText, NoKeyboard))
    /\ tasks = NoTasks
    /\ call = NoCall

\* a menu is rendered for arguments taken from the catalog
MenuCall(fn, key, n, m, out) ==
    [fn |-> fn, done |-> TRUE, arg |-> [key |-> key, n |-> n, m |-> m],
     out |-> out.keyboard]

\* "b", ":"
TokenQueries == { <<"b">>, <<":">> }

RenderMenu ==
    /\ \/ \E query \in TokenQueries :
             call' = MenuCall("show_search_results_page", query, 0, 0,
                              show_search_results_page(
                                  query, fuzzy_search(movies, series, query), 0))
       \/ \E i \in 1..Len(series) :
             LET doc == series[i]
             IN  \/ call' = MenuCall("show_series_seasons", doc.key, 0, 0,
                                     show_series_seasons(series, doc.key))
                 \/ \E s \in 1..Len(doc.seasons) :
                       LET n == ParseNat(doc.seasons[s].k)
                       IN  \/ call' = MenuCall("show_season_episodes", doc.key, n, 0,
                                               show_season_episodes(series, doc.key, n))
                           \/ call' = MenuCall("show_sendall_qualities", doc.key, n, 0,
                                               show_sendall_qualities(series, doc.key, n))
                           \/ \E e \in 1..Len(doc.seasons[s].v) :
                                 LET m == ParseNat(doc.seasons[s].v[e].k)
                                 IN  call' = MenuCall("show_episode_qualities",
                                                      doc.key, n, m,
                                                      show_episode_qualities(
                                                          series, doc.key, n, m))
    /\ UNCHANGED <<movies, series, adds, shown, pc, job, events, last, tasks>>

\* a button of the rendered menu is pressed
PressRendered ==
    /\ call.done
    /\ \E data \in KeyboardTokens(call.out) : button_menu(data)

NextTokens ==
    \/ RenderMenu
    \/ PressRendered

\* the menus of a stored catalog and the presses of their buttons
SpecTokens == InitTokens /\ [][NextTokens]_vars

(***************************************************************************)
(* Every kind of update on a stored catalog                                *)
(***************************************************************************)
\* the store is empty, or holds an episode and a movie
InitUpdates ==
    /\ \E db \in {Ingested(<<>>),
                  Ingested(<<Post(File_B_S01E02_720, 1, "fA"),
                             Post(File_A_2020_720, 3, "fC")>>)} :
          movies = db.movies /\ series = db.series
    /\ adds = 0
    /\ shown = Screen(NoText, NoKeyboard)
    /\ pc = "idle"
    /\ job = NoJob
    /\ events = <<>>
    /\ last = Handled("none", <<>>, NoLocator, Rendered(NoText, NoKeyboard))
    /\ tasks = NoTasks
    /\ call = NoCall

\* "a_1080p.mp4", forwarded from the channel (message 2) to the bot by an
\* admin or by another user
HandleForwarded ==
    \E user \in Users :
        handle_media_message(user, File_a_1080, 7, TRUE,
                             [message_id |-> 2, file_id |-> "fB"], TRUE)

\* a press of a button of the menu on the screen
PressMenu == \E data \in KeyboardTokens(shown.keyboard) : button_menu(data)

PressSendAllQ == \E data \in KeyboardTokens(shown.keyboard) : button_sendallq(data)

PressSendPage == \E data \in KeyboardTokens(shown.keyboard) : button_sendpage(data)

NextUpdates ==
    \/ HandleForwarded
    \/ Commands
    \/ SearchMedia
    \/ PressMenu
    \/ ButtonGet
    \/ PressSendAllQ
    \/ PressSendPage
    \/ SendAllEpisodesStep
    \/ send_all_episodes_finish
    \/ send_all_on_page_item
    \/ SendAllOnPageStep
    \/ send_all_on_page_finish
    \/ RemoveButtons

SpecUpdates == InitUpdates /\ [][NextUpdates]_vars

(***************************************************************************)
(* Properties of the catalog                                               *)
(***************************************************************************)
\* the slots of the movies: one per (key, quality), with its locator
MovieSlots(mv) ==
    UNION {{[type |-> "movie", key |-> mv[i].key, s |-> <<>>, e |-> <<>>,
             q |-> mv[i].qualities[j].k,
             message_id |-> mv[i].qualities[j].v.message_id,
             file_id |-> mv[i].qualities[j].v.file_id] :
                j \in 1..Len(mv[i].qualities)} : i \in 1..Len(mv)}

\* the slots of the series: one per (key, season, episode, quality)
SeriesSlots(sr) ==
    UNION {UNION {UNION {{[type |-> "series", key |-> sr[i].key,
                           s |-> sr[i].seasons[j].k,
                           e |-> sr[i].seasons[j].v[k].k,
                           q |-> sr[i].seasons[j].v[k].v[l].k,
                           message_id |-> sr[i].seasons[j].v[k].v[l].v.message_id,
                           file_id |-> sr[i].seasons[j].v[k].v[l].v.file_id] :
                              l \in 1..Len(sr[i].seasons[j].v[k].v)} :
                         k \in 1..Len(sr[i].seasons[j].v)} :
                  j \in 1..Len(sr[i].seasons)} : i \in 1..Len(sr)}

CatalogSlots(mv, sr) == MovieSlots(mv) \cup SeriesSlots(sr)

\* the slot a file name is stored in
SlotOf(filename) ==
    LET parsed == Parse(filename)
    IN  [type |-> parsed.type, key |-> Lower(parsed.title),
         s |-> IF parsed.type = "series" THEN IntToStr(parsed.season) ELSE <<>>,
         e |-> IF parsed.type = "series" THEN IntToStr(parsed.episode) ELSE <<>>,
         q |-> parsed.quality]

InSlot(x, slot) ==
    /\ x.type = slot.type
    /\ x.key = slot.key
    /\ x.s = slot.s
    /\ x.e = slot.e
    /\ x.q = slot.q

InEntry(x, slot) == x.type = slot.type /\ x.key = slot.key

UniqueKeys(coll) ==
    \A i, j \in 1..Len(coll) : coll[i].key = coll[j].key => i = j

\* C1: an add_media call on a slot that exists replaces the locator of the
\* slot with the one of the call, and leaves the number of entries of both
\* collections and the number of slots of the entry as they were; no call
\* leaves two entries with one key.
C1_OverwriteKeepsCounts ==
    [][adds' = adds + 1 =>
        LET slot == SlotOf(last'.data)
            before == CatalogSlots(movies, series)
            after == CatalogSlots(movies', series')
        IN  /\ UniqueKeys(movies') /\ UniqueKeys(series')
            /\ (\E x \in before : InSlot(x, slot)) =>
                  /\ \E x \in after : InSlot(x, slot)
                  /\ \A x \in after : InSlot(x, slot) =>
                        /\ x.message_id = last'.loc.message_id
                        /\ x.file_id = last'.loc.file_id
                  /\ Len(movies') = Len(movies)
                  /\ Len(series') = Len(series)
                  /\ Cardinality({x \in after : InEntry(x, slot)})
                        = Cardinality({x \in before : InEntry(x, slot)})]_vars

\* two calls were made, the second on the slot of the first: one entry with
\* one slot, holding the locator of the second call
C1_Witness ==
    /\ adds = 2
    /\ Len(movies) + Len(series) = 1
    /\ Cardinality(CatalogSlots(movies, series)) = 1
    /\ last.loc = [message_id |-> 2, file_id |-> "fB"]
    /\ \A x \in CatalogSlots(movies, series) :
          x.message_id = 2 /\ x.file_id = "fB" /\ InSlot(x, SlotOf(last.data))

\* C2: every movie entry has a quality slot, every series entry a season,
\* every season an episode and every episode a quality slot.
C2_EntriesNeverEmpty ==
    /\ \A i \in 1..Len(movies) : Len(movies[i].qualities) >= 1
    /\ \A i \in 1..Len(series) :
          /\ Len(series[i].seasons) >= 1
          /\ \A j \in 1..Len(series[i].seasons) :
                /\ Len(series[i].seasons[j].v) >= 1
                /\ \A k \in 1..Len(series[i].seasons[j].v) :
                      Len(series[i].seasons[j].v[k].v) >= 1

\* a movie and a series with two seasons are stored
C2_Witness ==
    /\ adds = MaxAdds
    /\ Len(movies) = 1
    /\ Len(series) = 1
    /\ Len(series[1].seasons) = 2

\* C3: once the add_media calls of the clients have returned, the catalog
\* holds the slot of every call, with the locator of one of the calls on
\* that slot.
C3_NoSlotLost ==
    (\A w \in Workers : tasks.at[w].pc = "idle") =>
        \A c \in tasks.done :
            \E x \in CatalogSlots(movies, series) :
                /\ InSlot(x, SlotOf(c.filename))
                /\ \E c2 \in tasks.done :
                      /\ SlotOf(c2.filename) = SlotOf(c.filename)
                      /\ x.message_id = c2.loc.message_id
                      /\ x.file_id = c2.loc.file_id

(***************************************************************************)
(* Properties of the menus                                                 *)
(***************************************************************************)
\* the last update was a button press that took the branch of this action
Pressed(action) ==
    /\ last.handler = "button_callback"
    /\ Decode(last.data).action = action
    /\ ~Decode(last.data).bad

\* the buttons of a keyboard
Buttons(keyboard) ==
    UNION {{keyboard[r][c] : c \in 1..Len(keyboard[r])} : r \in 1..Len(keyboard)}

\* C4: what a press renders is determined by its token and the catalog: the
\* "File sent" message of a "get:" press is the one the handler renders for
\* that token from every menu of the catalog that carries it.
C4_SameTokenSameMenu ==
    (Pressed("get") /\ last.out.text.kind = "FileSent") =>
        \A t \in StaleTokens :
            LET d == Decode(t)
                menu == MenuFor(movies, series, d)
            IN  (/\ d.action \in MenuActions
                 /\ ~menu.raised
                 /\ last.data \in KeyboardTokens(menu.keyboard))
                => FileSent(menu.keyboard) = last.out

\* the action of the token that renders the parent of a menu
ParentAction(kind) ==
    CASE kind = "MovieSelectQuality" -> "page"
      [] kind = "SeriesSelectSeason" -> "page"
      [] kind = "SeasonSelectEpisode" -> "series"
      [] kind = "EpisodeSelectQuality" -> "season"
      [] kind = "SeasonSelectBulkQuality" -> "season"

NonTerminalMenus == {"MovieSelectQuality", "SeriesSelectSeason", "SeasonSelectEpisode",
                     "EpisodeSelectQuality", "SeasonSelectBulkQuality"}

BackLabels == {"Back", "BackToSeasons", "BackToEpisodes", "BackToResults"}

\* C5: every movie-qualities, series-seasons, season-episodes,
\* episode-qualities and bulk-quality menu has a back button whose token
\* renders the parent menu: the results page, or the menu of the same series
\* (and season) one level up.
C5_BackToParent ==
    (/\ last.handler = "button_callback"
     /\ ~last.out.raised
     /\ last.out.text.kind \in NonTerminalMenus) =>
        \E b \in Buttons(last.out.keyboard) :
            LET to == Decode(b.data)
                from == Decode(last.data)
            IN  /\ b.text.kind \in BackLabels
                /\ ~to.bad
                /\ to.action = ParentAction(last.out.text.kind)
                /\ to.action = "series" => to.key = from.key
                /\ to.action = "season" => to.key = from.key /\ to.n = from.n

\* the decoded token names a title key, a season or an episode that the
\* catalog does not have
Missing(mv, sr, d) ==
    LET seasons == find_one(sr, d.key).seasons
    IN  CASE d.action = "movie" -> ~HasDoc(mv, d.key)
          [] d.action = "series" -> ~HasDoc(sr, d.key)
          [] d.action \in {"season", "sendall", "sendallq"} ->
                \/ ~HasDoc(sr, d.key)
                \/ ~DictHas(seasons, IntToStr(d.n))
          [] d.action = "episode" ->
                \/ ~HasDoc(sr, d.key)
                \/ ~DictHas(seasons, IntToStr(d.n))
                \/ ~DictHas(DictGet(seasons, IntToStr(d.n)), IntToStr(d.m))
          [] OTHER -> FALSE

NotFoundTexts == {"MovieNotFound", "SeriesNotFound", "NoEpisodesForSeason",
                  "NoEpisodesInQuality"}

\* C6: a press whose token names a missing title key, season or episode ends
\* with a not-found text without buttons, and raises nothing.
C6_MissingIsNotFound ==
    (/\ last.handler = "button_callback"
     /\ ~Decode(last.data).bad
     /\ Missing(movies, series, Decode(last.data))) =>
        /\ ~last.out.raised
        /\ last.out.text.kind \in NotFoundTexts
        /\ last.out.keyboard = NoKeyboard

\* C7: a results page of n items reports max(1, ceil(n / 8)) pages and a
\* page index within 0 .. pages - 1.
C7_PageCountAndClamp ==
    (~last.out.raised /\ last.out.text.kind = "Results") =>
        LET n == last.out.text.c
            pages == last.out.text.b
            index == last.out.text.a - 1
            ceil == (n + ITEMS_PER_PAGE - 1) \div ITEMS_PER_PAGE
        IN  /\ pages = IF ceil < 1 THEN 1 ELSE ceil
            /\ index \in 0..(pages - 1)

(***************************************************************************)
(* Properties of the bulk dispatches                                       *)
(***************************************************************************)
IsCopy(event) == event.ev = "copy"

\* the delivery attempts of the running handler, in order
Attempts == SelectSeq(events, IsCopy)

\* the season dispatch requested by the last press is running or has ended
InSeasonDispatch ==
    /\ Pressed("sendallq")
    /\ pc \in {"send_all_episodes", "sleep60"}

\* C8: in a season dispatch the attempts made and the episodes still to go
\* are the collected episodes, each once and whatever failed before; the
\* counters are the numbers of succeeded and of failed attempts, and the
\* final summary reports them, their sum being the number collected.
C8_EachEpisodeAttemptedOnce ==
    InSeasonDispatch =>
        LET d == Decode(last.data)
            collected == EpisodesToSend(series, d.key, d.n, d.q)
            attempted == [i \in 1..Len(Attempts) |->
                             [ep |-> Attempts[i].ep, message_id |-> Attempts[i].message_id]]
            succeeded == Cardinality({i \in 1..Len(Attempts) : Attempts[i].ok})
            failed == Cardinality({i \in 1..Len(Attempts) : ~Attempts[i].ok})
        IN  /\ attempted \o job.inner = collected
            /\ job.sent_count = succeeded
            /\ job.failed_count = failed
            /\ pc = "sleep60" =>
                  /\ job.inner = <<>>
                  /\ last.out.text.kind = "SentEpisodes"
                  /\ last.out.text.a = succeeded
                  /\ last.out.text.b = failed
                  /\ last.out.text.a + last.out.text.b = Len(collected)

\* a dispatch of two episodes has ended; the first delivery failed, the
\* second succeeded
C8_Witness ==
    /\ InSeasonDispatch
    /\ pc = "sleep60"
    /\ Len(Attempts) = 2
    /\ ~Attempts[1].ok
    /\ Attempts[2].ok
    /\ last.out.text.a = 1
    /\ last.out.text.b = 1

\* C9: the attempts of a season dispatch are in strictly ascending order of
\* the episode number, each for an episode of the season that is stored in
\* the selected quality, with the message of that slot; once the dispatch
\* has ended every such episode was attempted.
C9_AscendingEpisodesOfQuality ==
    InSeasonDispatch =>
        LET d == Decode(last.data)
            slots == {x \in SeriesSlots(series) :
                         /\ x.key = d.key
                         /\ x.s = IntToStr(d.n)
                         /\ x.q = d.q}
        IN  /\ \A i, j \in 1..Len(Attempts) : i < j => Attempts[i].ep < Attempts[j].ep
            /\ \A i \in 1..Len(Attempts) :
                  \E x \in slots : /\ ParseNat(x.e) = Attempts[i].ep
                                   /\ x.message_id = Attempts[i].message_id
            /\ pc = "sleep60" =>
                  \A x \in slots : \E i \in 1..Len(Attempts) : Attempts[i].ep = ParseNat(x.e)

\* episodes 10 and 2 were stored in this order in the selected quality and
\* episode 1 in another; the dispatch attempted 2, then 10
C9_Witness ==
    /\ InSeasonDispatch
    /\ pc = "sleep60"
    /\ Len(Attempts) = 2
    /\ Attempts[1].ep = 2
    /\ Attempts[2].ep = 10
    /\ LET season == DictGet(find_one(series, Decode(last.data).key).seasons,
                             IntToStr(Decode(last.data).n))
       IN  DictKeys(season) = << <<"1","0">>, <<"2">>, <<"1">> >>

\* C10: in a bulk dispatch a pacing sleep follows every delivery attempt
\* that is followed by another one.
C10_PacedAttempts ==
    (Pressed("sendallq") \/ Pressed("sendpage")) =>
        \A i \in 1..Len(events) :
            (/\ events[i].ev = "copy"
             /\ \E j \in (i + 1)..Len(events) : events[j].ev = "copy")
            => events[i + 1].ev = "sleep"

(***************************************************************************)
(* Properties of the scheduling of the handlers                            *)
(***************************************************************************)
\* a handler is suspended in the pacing sleep that follows a delivery of a
\* bulk dispatch, or in the 60 seconds after which it removes the buttons
Suspended ==
    \/ pc = "sleep60"
    \/ /\ pc \in {"send_all_episodes", "send_all_on_page"}
       /\ events # <<>>
       /\ events[Len(events)].ev = "sleep"

\* C11: while a handler is suspended in a pacing sleep or in the 60 seconds
\* after a dispatch, the update of another interaction (a search, a press
\* that renders a menu) can be handled.
C11_OthersHandledWhileSuspended ==
    Suspended => ENABLED (SearchMedia \/ ButtonMenu)

\* the keyboard has a button whose token renders this menu
LeadsTo(keyboard, menu) ==
    \E b \in Buttons(keyboard) :
        /\ Decode(b.data).action \in MenuActions
        /\ MenuFor(movies, series, Decode(b.data)) = menu

\* C12: the message that ends a dispatch has a button that renders the menu
\* the dispatch was requested from: for a "get:" press the menu that was on
\* the screen, for a season dispatch the bulk-quality menu of the season.
C12_CompletionLeadsBack ==
    [][/\ (pc = "idle" /\ pc' = "sleep60" /\ Decode(last'.data).action = "get")
          => LeadsTo(shown'.keyboard, Rendered(shown.text, shown.keyboard))
       /\ (pc = "send_all_episodes" /\ pc' = "sleep60")
          => LeadsTo(shown'.keyboard,
                     show_sendall_qualities(series, Decode(last.data).key,
                                            Decode(last.data).n))]_vars

(***************************************************************************)
(* Properties of the ingestion                                             *)
(***************************************************************************)
\* C13: when the store fails during the ingestion of a file, forwarded from
\* the channel or not, the handler replies with the error report for that
\* file and the catalog is as it was.
C13_StoreFailureReported ==
    [][HandleMediaMessageStoreDown =>
          /\ ~last'.out.raised
          /\ last'.out.text = Label("ErrorIndexing", last'.data)
          /\ movies' = movies
          /\ series' = series]_vars

(***************************************************************************)
(* Properties of parse_filename                                            *)
(***************************************************************************)
\* parse_filename has returned
Parsed == call.fn = "parse_filename" /\ call.done

\* the season and the episode of the leftmost S<digits>E<digits> of a text
FirstSeasonEpisode(text) ==
    LET i == MinOf(SeasonEpisodePositions(text))
        sl == DigitRun(text, i + 1)
        el == DigitRun(text, i + sl + 2)
    IN  [at |-> i,
         season |-> ParseNat(SubSeq(text, i + 1, i + sl)),
         episode |-> ParseNat(SubSeq(text, i + sl + 2, i + sl + 1 + el))]

\* C14: for a file name that contains S<digits>E<digits> in any letter case
\* parse_filename returns a series whose season and episode are the integers
\* of the first such pattern.
C14_PatternGivesSeries ==
    (Parsed /\ SeasonEpisodePositions(call.arg) # {}) =>
        /\ call.out.type = "series"
        /\ call.out.season = FirstSeasonEpisode(call.arg).season
        /\ call.out.episode = FirstSeasonEpisode(call.arg).episode

\* C15: every season number and every episode number stored in the catalog
\* is at least 1.
C15_NumbersFromOne ==
    \A x \in SeriesSlots(series) : ParseNat(x.s) >= 1 /\ ParseNat(x.e) >= 1

\* the name the patterns are searched in
StrippedName == SplitExtRoot(call.arg)

\* the title made of the part of the stripped name before position i
TitleBefore(i) == Strip(SubSeparators(SubSeq(StrippedName, 1, i - 1)))

\* C16: when the stripped name has a season/episode marker, the title is the
\* text before the first marker with its separators replaced and trimmed,
\* year-like and quality-like tokens before the marker included.
C16_SeriesTitleUpToMarker ==
    (Parsed /\ SeasonEpisodePositions(StrippedName) # {}) =>
        call.out.title = TitleBefore(MinOf(SeasonEpisodePositions(StrippedName)))

\* C17: without a season/episode marker the title is the text before the
\* first 19xx/20xx year when there is one, else the text before the first
\* quality token (2160p, 4K, 1080p, 720p, 480p, 360p) when there is one,
\* else the whole stripped name.
C17_MovieTitleChoice ==
    (Parsed /\ SeasonEpisodePositions(StrippedName) = {}) =>
        call.out.title =
            IF YearPositions(StrippedName) # {}
            THEN TitleBefore(MinOf(YearPositions(StrippedName)))
            ELSE IF AltPositions(StrippedName, QualityAlts) # {}
            THEN TitleBefore(MinOf(AltPositions(StrippedName, QualityAlts)))
            ELSE TitleBefore(Len(StrippedName) + 1)

\* C18: the title has no two consecutive spaces, so that titles written with
\* different runs of separators get one key.
C18_SeparatorsCollapsed ==
    Parsed => ~Contains(call.out.title, <<" ", " ">>)

(***************************************************************************)
(* Properties of fuzzy_search                                              *)
(***************************************************************************)
\* fuzzy_search has returned
Searched == call.fn = "fuzzy_search" /\ call.done

\* the entry is to be returned for the query: its ratio with the lower-cased
\* query reaches the threshold, or the lower-cased query occurs in its key
ToReturn(doc, query) ==
    \/ RatioAtLeast(Ratio(Lower(query), doc.key), ThresholdNum, ThresholdDen)
    \/ Contains(doc.key, Lower(query))

\* the list holds, once each, the entries of the collection to be returned
ReturnsExactly(list, coll, query) ==
    /\ {list[i].key : i \in 1..Len(list)}
          = {coll[i].key : i \in {j \in 1..Len(coll) : ToReturn(coll[j], query)}}
    /\ \A i, j \in 1..Len(list) : list[i].key = list[j].key => i = j

\* C19: fuzzy_search returns an entry if and only if its ratio with the
\* lower-cased query is at least the threshold or the lower-cased query is a
\* substring of its key; an empty catalog yields two empty lists.
C19_ReturnedIffRatioOrSubstring ==
    Searched =>
        /\ ReturnsExactly(call.out.movies, movies, call.arg)
        /\ ReturnsExactly(call.out.series, series, call.arg)
        /\ (movies = <<>> /\ series = <<>>) =>
              call.out = [movies |-> <<>>, series |-> <<>>]

\* "breaking bad" is returned for a query that occurs in it, with a ratio
\* below the threshold, and a movie of the catalog is not returned
C19_Witness ==
    /\ Searched
    /\ \E i \in 1..Len(call.out.series) :
          /\ Contains(call.out.series[i].key, Lower(call.arg))
          /\ Len(call.out.series[i].key) > Len(call.arg)
          /\ ~RatioAtLeast(call.out.series[i].ratio, ThresholdNum, ThresholdDen)
    /\ \E i \in 1..Len(movies) :
          \A j \in 1..Len(call.out.movies) : call.out.movies[j].key # movies[i].key

\* the place of a key in a collection
PlaceOf(coll, key) == MinOf({i \in 1..Len(coll) : coll[i].key = key})

\* the list is in non-increasing order of the ratios, entries of equal ratio
\* in the order of the collection
OrderedByRatio(list, coll) ==
    \A i, j \in 1..Len(list) :
        i < j =>
            /\ ~RatioGreater(list[j].ratio, list[i].ratio)
            /\ ~RatioGreater(list[i].ratio, list[j].ratio)
                  => PlaceOf(coll, list[i].key) < PlaceOf(coll, list[j].key)

\* C20: each list fuzzy_search returns is ordered by non-increasing ratio,
\* the ratio of an entry being the one of the lower-cased query with its
\* key, and entries of equal ratio keep the order of the scan.
C20_SortedByRatioStable ==
    Searched =>
        /\ OrderedByRatio(call.out.movies, movies)
        /\ OrderedByRatio(call.out.series, series)
        /\ \A i \in 1..Len(call.out.movies) :
              call.out.movies[i].ratio = Ratio(Lower(call.arg), call.out.movies[i].key)
        /\ \A i \in 1..Len(call.out.series) :
              call.out.series[i].ratio = Ratio(Lower(call.arg), call.out.series[i].key)

\* three movies are returned: the one stored last first, then two of equal
\* lower ratio in the order they were stored
C20_Witness ==
    /\ Searched
    /\ Len(movies) = 3
    /\ Len(call.out.movies) = 3
    /\ call.out.movies[1].key = movies[3].key
    /\ call.out.movies[2].key = movies[1].key
    /\ call.out.movies[3].key = movies[2].key
    /\ RatioGreater(call.out.movies[1].ratio, call.out.movies[2].ratio)
    /\ call.out.movies[2].ratio = call.out.movies[3].ratio

(***************************************************************************)
(* Properties of search_media                                              *)
(***************************************************************************)
\* what search_media leaves when it returns before the call of fuzzy_search:
\* no reply. After the call it replies, with "No results found" or a page.
ReturnedBeforeSearch == last.out = Rendered(NoText, NoKeyboard)

\* C21: a text whose query (the text stripped) is shorter than 2 characters
\* never reaches fuzzy_search: search_media returns before the call.
C21_ShortQueryRejected ==
    (last.handler = "search_media" /\ Len(Strip(last.data)) < 2)
        => ReturnedBeforeSearch

(***************************************************************************)
(* Properties of the pages of the search results                           *)
(***************************************************************************)
\* the buttons of a keyboard, row after row
ButtonSeq(keyboard) == Concat(keyboard)

IsItemToken(data) == StartsWith(data, S_movie) \/ StartsWith(data, S_series)

\* the tokens of the items a keyboard shows, in the order of its rows
ItemTokens(keyboard) ==
    LET IsItem(button) == IsItemToken(button.data)
        items == SelectSeq(ButtonSeq(keyboard), IsItem)
    IN  [i \in 1..Len(items) |-> items[i].data]

\* the tokens of the buttons of a keyboard with the label
TokensOf(keyboard, kind) ==
    LET Is(button) == button.text.kind = kind
        found == SelectSeq(ButtonSeq(keyboard), Is)
    IN  [i \in 1..Len(found) |-> found[i].data]

\* the combined result list of a query: the movies, then the series
CombinedTokens(query) ==
    LET results == fuzzy_search(movies, series, query)
    IN  [i \in 1..Len(results.movies) |-> S_movie \o results.movies[i].key]
        \o [i \in 1..Len(results.series) |-> S_series \o results.series[i].key]

\* ceil(n / ITEMS_PER_PAGE)
PageCount(n) ==
    IF n % ITEMS_PER_PAGE = 0 THEN n \div ITEMS_PER_PAGE ELSE n \div ITEMS_PER_PAGE + 1

\* what button_callback renders for the token of a page of a query
PageScreen(query, page) ==
    MenuFor(movies, series, Decode(S_page \o IntToStr(page) \o S_colon \o query))

RECURSIVE FollowNext(_, _)
\* the items met from a page on, Next being pressed as long as it is offered
\* (at most more times)
FollowNext(keyboard, more) ==
    ItemTokens(keyboard)
    \o (IF more = 0 \/ TokensOf(keyboard, "Next") = <<>> THEN <<>>
        ELSE FollowNext(MenuFor(movies, series,
                                Decode(TokensOf(keyboard, "Next")[1])).keyboard,
                        more - 1))

\* a handler has rendered a page of results
OnResultsPage == ~last.out.raised /\ last.out.text.kind = "Results"

\* C22: for a combined result list of n items and an unchanged catalog, the
\* slices shown on the pages 0 .. ceil(n/8)-1 are pairwise disjoint, hold at
\* most 8 items each and, concatenated in page order, are the full list
\* (movies first, then series); following Next from page 0 visits every item
\* exactly once, and Previous is offered exactly on the pages above 0.
C22_PagesPartitionResults ==
    OnResultsPage =>
        LET query == last.out.text.s
            page == last.out.text.a - 1
            full == CombinedTokens(query)
            count == PageCount(Len(full))
            slices == [k \in 1..count |-> ItemTokens(PageScreen(query, k - 1).keyboard)]
        IN  page < count =>
                /\ shown.keyboard = last.out.keyboard
                /\ ItemTokens(shown.keyboard) = slices[page + 1]
                /\ \A k \in 1..count : Len(slices[k]) <= ITEMS_PER_PAGE
                /\ \A k, l \in 1..count :
                      k # l => \A i \in 1..Len(slices[k]), j \in 1..Len(slices[l]) :
                                  slices[k][i] # slices[l][j]
                /\ Concat(slices) = full
                /\ \A i, j \in 1..Len(full) : full[i] = full[j] => i = j
                /\ FollowNext(PageScreen(query, 0).keyboard, count) = full
                /\ \A k \in 1..count :
                      (TokensOf(PageScreen(query, k - 1).keyboard, "Previous") # <<>>)
                          <=> (k - 1 > 0)
                /\ (TokensOf(shown.keyboard, "Previous") # <<>>) <=> (page > 0)

\* the third and last page of seventeen results or more is on the screen,
\* reached by a press of Next
C22_Witness ==
    /\ OnResultsPage
    /\ last.handler = "button_callback"
    /\ last.out.text.a = 3
    /\ last.out.text.b = 3
    /\ Len(CombinedTokens(last.out.text.s)) > 2 * ITEMS_PER_PAGE
    /\ ItemTokens(shown.keyboard) # <<>>
    /\ TokensOf(shown.keyboard, "Next") = <<>>
    /\ TokensOf(shown.keyboard, "Previous") # <<>>

(***************************************************************************)
(* Properties of the tokens                                                *)
(***************************************************************************)
\* the functions that render a menu
MenuFunctions ==
    {"show_search_results_page", "show_series_seasons", "show_season_episodes",
     "show_sendall_qualities", "show_episode_qualities"}

\* the labels of the buttons whose token carries a series key
KeyedLabels ==
    {"Season", "SendAllEpisodes", "Episode", "BackToSeasons", "SendAllIn",
     "BackToEpisodes"}

\* the arguments the token of a button was built from: those of the menu
\* (arg) and the season, episode or quality its label names
BuiltFrom(button, arg) ==
    LET kind == button.text.kind
    IN  IF kind = "Season"
        THEN Decoded("season", arg.key, ParseNat(button.text.s), 0, <<>>, FALSE)
        ELSE IF kind = "SendAllEpisodes"
        THEN Decoded("sendall", arg.key, arg.n, 0, <<>>, FALSE)
        ELSE IF kind = "Episode"
        THEN Decoded("episode", arg.key, arg.n, ParseNat(button.text.s), <<>>, FALSE)
        ELSE IF kind = "BackToSeasons"
        THEN Decoded("series", arg.key, 0, 0, <<>>, FALSE)
        ELSE IF kind = "SendAllIn"
        THEN Decoded("sendallq", arg.key, arg.n, 0, button.text.s, FALSE)
        ELSE Decoded("season", arg.key, arg.n, 0, <<>>, FALSE)

\* C23: the token a menu emits for a title key of the catalog (a key may hold
\* ':' or be empty), a season, an episode or a quality is decoded by
\* button_callback to exactly the arguments it was built from.
C23_TokensRoundTrip ==
    (call.done /\ call.fn \in MenuFunctions) =>
        /\ \A button \in Buttons(call.out) :
              button.text.kind \in KeyedLabels
                  => Decode(button.data) = BuiltFrom(button, call.arg)
        /\ call.fn = "show_search_results_page" =>
              LET items == PageItems(AllItems(fuzzy_search(movies, series, call.arg.key)), 0)
                  tokens == ItemTokens(call.out)
              IN  /\ Len(tokens) = Len(items)
                  /\ \A i \in 1..Len(tokens) :
                        Decode(tokens[i])
                            = Decoded(items[i].type, items[i].key, 0, 0, <<>>, FALSE)

(***************************************************************************)
(* Properties of the updates that do not post a file as an admin           *)
(***************************************************************************)
\* a media message of a user that is not in ADMIN_IDS
OtherUserPost ==
    \E user \in Users \ ADMIN_IDS :
        handle_media_message(user, File_a_1080, 7, TRUE,
                             [message_id |-> 2, file_id |-> "fB"], TRUE)

\* a text search, a command, a button press, or a step of the dispatch a
\* press started
NoPostUpdate ==
    \/ SearchMedia
    \/ Commands
    \/ PressMenu
    \/ ButtonGet
    \/ PressSendAllQ
    \/ PressSendPage
    \/ SendAllEpisodesStep
    \/ send_all_episodes_finish
    \/ send_all_on_page_item
    \/ SendAllOnPageStep
    \/ send_all_on_page_finish
    \/ RemoveButtons

\* C24: the catalog is modified only by the file posts of senders in
\* ADMIN_IDS: a media message of any other user, a text search, a command
\* and a button press leave every entry of the catalog unchanged.
C24_OnlyAdminPostsModify ==
    [][ /\ (OtherUserPost \/ NoPostUpdate) => (movies' = movies /\ series' = series)
        /\ (movies' # movies \/ series' # series) =>
              /\ last'.handler = "handle_media_message"
              /\ last'.out.text.kind # "NotAuthorized" ]_vars

\* after a file was indexed, the media message of another user is refused
C24_Witness ==
    /\ adds > 0
    /\ movies # <<>>
    /\ last.handler = "handle_media_message"
    /\ last.out.text.kind = "NotAuthorized"

====
